---- MODULE Spec2Model ----
(***************************************************************************)
(* A model of the centurion wrappers around SDL2: cen::thread,             *)
(* cen::basic_haptic, centurion::music and centurion::basic_renderer.      *)
(* The native library is modelled by the calls the wrappers make on it     *)
(* (counters per native handle, the values the native side stores).        *)
(* A null pointer is the handle 0.  The variable last records the most     *)
(* recent call: its name, its arguments, what it returned or threw.        *)
(***************************************************************************)
EXTENDS Integers, Sequences, FiniteSets, TLC

\* ------------------------------------------------------------------ bounds
NumThreads == 2         \* thread objects
MaxStatus == 1          \* exit statuses of a native thread are 0..MaxStatus
NumHaptics == 2         \* haptic objects
MaxHapticDevice == 1    \* native haptic devices (SDL_Haptic*) are 1..MaxHapticDevice
NumMusics == 1          \* music objects
NumRenderers == 2       \* renderer objects
MaxFont == 1            \* fonts (non-null shared_ptr<Font>) are 1..MaxFont
MaxLibraries == 2       \* cen::library objects constructed in one run
NumTextures == 2        \* native textures (SDL_Texture*) are 1..NumTextures
MaxTuple == 3           \* types in the std::tuple given to tuple_type_index
MaxStream == 4          \* strings written to the output stream in one run

Threads == 1..NumThreads
ThreadHandles == 0..NumThreads      \* 0 is the null SDL_Thread*
StatusValues == 0..MaxStatus
DefaultThreadName == "thread"
Names == {"thread", "worker"}

Haptics == 1..NumHaptics
HapticPtrs == 0..MaxHapticDevice    \* 0 is the null SDL_Haptic*

Musics == 1..NumMusics
MusicHandles == 0..NumMusics        \* 0 is the null Mix_Music*
Files == {"", "hiddenPond.mp3"}
MIX_MAX_VOLUME == 128
VolumeArgs == {-1, 0, 47, MIX_MAX_VOLUME, MIX_MAX_VOLUME + 1}
MsArgs == {-1, 0, 100}              \* milliseconds<int>
LoopArgs == {-2, 1}                 \* nLoops

Renderers == 1..NumRenderers
RendererPtrs == 0..NumRenderers     \* 0 is the null SDL_Renderer*
FontKeys == {"a", "b"}
FontPtrs == 0..MaxFont              \* 0 is the null shared_ptr<Font>
\* Color{red, green, blue, alpha}
black == <<0, 0, 0, 255>>
Colors == {black, <<255, 0, 0, 255>>, <<0, 0, 255, 128>>}
\* Coordinates: an int is a whole number; a float is counted in halves, so
\* that the float 1.5 is 3
NumberTypes == {"int", "float"}
ViewportCoords == {0, 3}            \* floats: 0 and 1.5
PointCoords == {0, 1}
Textures == {[width |-> 2, height |-> 1]}
RectSizes == {[width |-> 1, height |-> 2]}
\* const Texture* arguments of set_target: null, or a texture with its
\* SDL_Texture* and whether it supports being a render target
TargetTextures ==
  {[null |-> TRUE, get |-> 0, is_target |-> FALSE],
   [null |-> FALSE, get |-> 1, is_target |-> FALSE],
   [null |-> FALSE, get |-> 2, is_target |-> TRUE]}
ScaleValues == {0, 1, 3}            \* floats: 0, 0.5 and 1.5
SizeValues == {-1, 2, 3}            \* area_i components
Texts == {"null", "text"}           \* gsl::czstring: the null pointer, or a string
SurfacePtrs == {0, 1, 2}            \* SDL_Surface*: null, or a surface
TextMethods == {"text_blended", "text_blended_wrapped", "text_shaded", "text_solid"}

\* The native initialization functions, faked in the library tests
InitFunctions == {"SDL_Init", "TTF_Init", "IMG_Init", "Mix_Init", "Mix_OpenAudio"}
\* cen::config{}: the flags stand for the non-zero masks of the default
\* configuration; TTF_Init takes no argument
cfg == [coreFlags |-> 62001, imageFlags |-> 15, mixerFlags |-> 123, mixerFreq |-> 44100]
\* The return values a test gives each fake: the failure value and the
\* value SetUp gives it
FakeReturnVals ==
  [SDL_Init |-> {-1, cfg.coreFlags}, TTF_Init |-> {-1, 0},
   IMG_Init |-> {0, cfg.imageFlags}, Mix_Init |-> {0, cfg.mixerFlags},
   Mix_OpenAudio |-> {-1, 0}]

\* Values of the event fields: u32 window and mouse ids, u8 click counts,
\* i32 coordinates, SDL_JoystickID
U32Values == {0, 64}
ClickValues == {1, 2}
I32Values == {-1, 7}
JoystickIds == {0, 3}
\* MouseButton: left, middle, right, x1, x2
MouseButtons == {1, 2, 3, 4, 5}
\* ButtonState: released, pressed
ButtonStates == {0, 1}
\* GameControllerButton, with the values of SDL_GameControllerButton: invalid
\* (SDL_CONTROLLER_BUTTON_INVALID), a, b
GameControllerButtons == {-1, 0, 1}
\* The SDL events a wrapper is constructed from
SDLMouseButtonEvents ==
  {[windowID |-> 0, which |-> 0, button |-> 1, state |-> 1, clicks |-> 1, x |-> 7, y |-> -1],
   [windowID |-> 64, which |-> 0, button |-> 3, state |-> 0, clicks |-> 2, x |-> -1, y |-> 7]}
SDLControllerButtonEvents ==
  {[button |-> 0, state |-> 1, which |-> 0], [button |-> 1, state |-> 0, which |-> 3]}

TextureHandles == 1..NumTextures
Paths == {"panda.png", "grass.png"} \* image files given to Texture::streaming
PixelFormats == {"RGBA8888", "ARGB8888"}
\* What can happen in Texture::streaming: the surface cannot be created, the
\* texture cannot be created, the lock fails, or nothing fails
StreamingOutcomes == {"no surface", "no texture", "no lock", "ok"}

\* Mouse buttons by their SDL index: left, middle, right, x1, x2
ButtonIndices == {1, 2, 3, 4, 5}
\* The sets of buttons SDL_GetMouseState reports as held down
ButtonSets == {{}, {1}, {3}, {1, 3}, {2}}
MouseCoords == {0, 7}
\* Masks given to IsButtonPressed and WasButtonReleased: the button masks and
\* masks that are no button mask
MaskArgs == {0, 1, 2, 3, 4, 8, 16, 32}

\* The types tuple_type_index is instantiated with, and the type lists T...
Types == {"int", "float", "bool"}
TypeLists == UNION {[1..n -> Types] : n \in 0..MaxTuple}

\* Values a mouse_wheel_direction can hold: the two enumerators and, by
\* static_cast, values that are no enumerator
DirValues == {-1, 0, 1, 2}

VARIABLES
  thr,                  \* thread objects: life, m_thread, m_joined, m_detached
  sdlThreadName,        \* native: name given to SDL_CreateThread, by handle
  sdlWaitCalls,         \* native: number of SDL_WaitThread calls, by handle
  sdlDetachCalls,       \* native: number of SDL_DetachThread calls, by handle
  nextThread,           \* native: next SDL_Thread* that SDL_CreateThread returns
  hap,                  \* haptic objects: life, owning (B::value), m_haptic
  sdlHapticCloseCalls,  \* native: number of SDL_HapticClose calls, by device
  sdlRumble,            \* native: rumble state of each device
  mus,                  \* music objects: life, m_music
  nextMusic,            \* native: next Mix_Music* that Mix_LoadMUS returns
  mix,                  \* native: the mixer's music channel: the music playing,
                        \* its fade, whether the channel is active, the volume
  rnd,                  \* renderer objects: life, m_renderer, m_translationViewport, m_fonts
  sdlDestroyCalls,      \* native: number of SDL_DestroyRenderer calls, by handle
  sdlRenderer,          \* native: draw color, blend mode, integer scale, render
                        \* target, scale, logical size, by handle
  nextRenderer,         \* native: next SDL_Renderer* that SDL_CreateRenderer returns
  addedKeys,            \* history: the keys given to add_font and not to remove_font since
  fake,                 \* the fakes of the initialization functions: return_val,
                        \* call_count, arg0_val
  ev,                   \* the event wrappers: life, m_event
  evSet,                \* history: per wrapper and getter, the value last given to
                        \* its setter, or the field of the event it was built from
  sdlTexture,           \* native: per SDL_Texture*, whether it is locked and the
                        \* lock and unlock calls made on it, in order
  nextTexture,          \* native: next SDL_Texture* that SDL_CreateTexture returns
  mouse,                \* the MouseState object: life, x, y, prevMask, currentMask
  sampled,              \* history: the buttons held down in the last two samples of
                        \* SDL_GetMouseState, older first
  stream,               \* the std::ostream: the strings written to it, in order
  last                  \* the most recent call, its arguments and its outcome

threadVars == <<thr, sdlThreadName, sdlWaitCalls, sdlDetachCalls, nextThread>>
hapticVars == <<hap, sdlHapticCloseCalls, sdlRumble>>
musicVars == <<mus, nextMusic, mix>>

rendererVars == <<rnd, sdlDestroyCalls, sdlRenderer, nextRenderer, addedKeys>>

libraryVars == <<fake>>
eventVars == <<ev, evSet>>
enumVars == <<stream>>
textureVars == <<sdlTexture, nextTexture>>
mouseVars == <<mouse, sampled>>

vars ==
  <<threadVars, hapticVars, musicVars, rendererVars, libraryVars, eventVars, enumVars, textureVars,
    mouseVars, last>>

\* What a call on one kind of wrapper leaves alone
ThreadOnly ==
  UNCHANGED <<hapticVars, musicVars, rendererVars, libraryVars, eventVars, enumVars,
              textureVars, mouseVars>>
HapticOnly ==
  UNCHANGED <<threadVars, musicVars, rendererVars, libraryVars, eventVars, enumVars,
              textureVars, mouseVars>>
MusicOnly ==
  UNCHANGED <<threadVars, hapticVars, rendererVars, libraryVars, eventVars, enumVars,
              textureVars, mouseVars>>
RendererOnly ==
  UNCHANGED <<threadVars, hapticVars, musicVars, libraryVars, eventVars, enumVars,
              textureVars, mouseVars>>
LibraryOnly ==
  UNCHANGED <<threadVars, hapticVars, musicVars, rendererVars, eventVars, enumVars,
              textureVars, mouseVars>>
EventOnly ==
  UNCHANGED <<threadVars, hapticVars, musicVars, rendererVars, libraryVars, enumVars,
              textureVars, mouseVars>>
EnumOnly ==
  UNCHANGED <<threadVars, hapticVars, musicVars, rendererVars, libraryVars, eventVars,
              textureVars, mouseVars>>
TextureOnly ==
  UNCHANGED <<threadVars, hapticVars, musicVars, rendererVars, libraryVars, eventVars,
              enumVars, mouseVars>>
MouseOnly ==
  UNCHANGED <<threadVars, hapticVars, musicVars, rendererVars, libraryVars, eventVars,
              enumVars, textureVars>>
NoObject ==
  UNCHANGED <<threadVars, hapticVars, musicVars, rendererVars, libraryVars, eventVars,
              enumVars, textureVars, mouseVars>>

\* ------------------------------------------------------------- cen::thread
NoThread == [life |-> "none", m_thread |-> 0, m_joined |-> FALSE, m_detached |-> FALSE]

ThreadInit ==
  /\ thr = [t \in Threads |-> NoThread]
  /\ sdlThreadName = [h \in ThreadHandles |-> "none"]
  /\ sdlWaitCalls = [h \in ThreadHandles |-> 0]
  /\ sdlDetachCalls = [h \in ThreadHandles |-> 0]
  /\ nextThread = 1

\* thread::joinable
joinable(o) == ~o.m_joined /\ ~o.m_detached

\* thread::was_joined, thread::was_detached
was_joined(o) == o.m_joined
was_detached(o) == o.m_detached

\* thread::name: SDL_GetThreadName(m_thread)
name(o) == sdlThreadName[o.m_thread]

join_obj_unguarded(o) == [o EXCEPT !.m_joined = TRUE]
\* thread::join, the object after the call
join_obj(o) == IF o.m_joined \/ o.m_detached THEN o ELSE [o EXCEPT !.m_joined = TRUE]

join_wait_unguarded(o, w) == [w EXCEPT ![o.m_thread] = @ + 1]
\* thread::join, the SDL_WaitThread calls after the call
join_wait(o, w) ==
  IF o.m_joined \/ o.m_detached THEN w ELSE [w EXCEPT ![o.m_thread] = @ + 1]

join_ret_zero(o, status) == 0
\* thread::join, the returned status (status is what the native thread reports)
join_ret(o, status) == IF o.m_joined \/ o.m_detached THEN 0 ELSE status

\* thread::detach, the object after the call
detach_obj(o) == IF o.m_joined \/ o.m_detached THEN o ELSE [o EXCEPT !.m_detached = TRUE]

\* thread::detach, the SDL_DetachThread calls after the call
detach_calls(o, d) ==
  IF o.m_joined \/ o.m_detached THEN d ELSE [d EXCEPT ![o.m_thread] = @ + 1]

dtor_wait_nojoin(o, w) == w
\* thread::~thread, the SDL_WaitThread calls after destruction
dtor_wait(o, w) == IF joinable(o) THEN join_wait(o, w) ELSE w

\* thread::~thread, the object after destruction
dtor_obj(o) == [(IF joinable(o) THEN join_obj(o) ELSE o) EXCEPT !.life = "dead"]

thread_ctor_nothrow(h) == FALSE
\* thread::thread: whether the constructor throws sdl_error for the handle
\* SDL_CreateThread returned
thread_ctor_throws(h) == h = 0

\* thread::thread(task, name, data): SDL_CreateThread(task, name, data)
\* yields a fresh handle (ok) or null; via names the entry point used
ThreadCreate(t, via, reqName, sdlName, ok) ==
  /\ thr[t].life = "none"
  /\ LET h == IF ok THEN nextThread ELSE 0 IN
     /\ nextThread' = IF ok THEN nextThread + 1 ELSE nextThread
     /\ sdlThreadName' = IF ok THEN [sdlThreadName EXCEPT ![h] = sdlName] ELSE sdlThreadName
     /\ thr' = [thr EXCEPT ![t] =
                  IF thread_ctor_throws(h) THEN [NoThread EXCEPT !.life = "failed"]
                  ELSE [NoThread EXCEPT !.life = "alive", !.m_thread = h]]
     /\ last' = [op |-> via, t |-> t, name |-> reqName, handle |-> h,
                 threw |-> IF thread_ctor_throws(h) THEN "sdl_error" ELSE "none"]
  /\ UNCHANGED <<sdlWaitCalls, sdlDetachCalls>>
  /\ ThreadOnly

ThreadCtor(t) ==
  \E n \in Names, ok \in BOOLEAN : ThreadCreate(t, "thread", n, n, ok)

\* thread::init(task, name): returns thread{wrapper}
ThreadInitNoData(t) ==
  \E n \in Names, ok \in BOOLEAN : ThreadCreate(t, "init", n, DefaultThreadName, ok)

\* thread::init(task, userData, name): returns thread{wrapper, name, userData}
ThreadInitData(t) ==
  \E n \in Names, ok \in BOOLEAN : ThreadCreate(t, "init_data", n, n, ok)

ThreadJoin(t) ==
  /\ thr[t].life = "alive"
  /\ \E status \in StatusValues :
       /\ thr' = [thr EXCEPT ![t] = join_obj(thr[t])]
       /\ sdlWaitCalls' = join_wait(thr[t], sdlWaitCalls)
       /\ last' = [op |-> "join", t |-> t, handle |-> thr[t].m_thread, status |-> status,
                   ret |-> join_ret(thr[t], status), wasJoinable |-> joinable(thr[t])]
  /\ UNCHANGED <<sdlThreadName, sdlDetachCalls, nextThread>>
  /\ ThreadOnly

ThreadDetach(t) ==
  /\ thr[t].life = "alive"
  /\ thr' = [thr EXCEPT ![t] = detach_obj(thr[t])]
  /\ sdlDetachCalls' = detach_calls(thr[t], sdlDetachCalls)
  /\ last' = [op |-> "detach", t |-> t, handle |-> thr[t].m_thread,
              wasJoinable |-> joinable(thr[t])]
  /\ UNCHANGED <<sdlThreadName, sdlWaitCalls, nextThread>>
  /\ ThreadOnly

ThreadDtor(t) ==
  /\ thr[t].life = "alive"
  /\ thr' = [thr EXCEPT ![t] = dtor_obj(thr[t])]
  /\ sdlWaitCalls' = dtor_wait(thr[t], sdlWaitCalls)
  /\ last' = [op |-> "~thread", t |-> t, handle |-> thr[t].m_thread,
              wasJoinable |-> joinable(thr[t])]
  /\ UNCHANGED <<sdlThreadName, sdlDetachCalls, nextThread>>
  /\ ThreadOnly

ThreadNext ==
  \/ \E t \in Threads : ThreadCtor(t)
  \/ \E t \in Threads : ThreadInitNoData(t)
  \/ \E t \in Threads : ThreadInitData(t)
  \/ \E t \in Threads : ThreadJoin(t)
  \/ \E t \in Threads : ThreadDetach(t)
  \/ \E t \in Threads : ThreadDtor(t)

\* ------------------------------------------------------- cen::basic_haptic
NoHaptic == [life |-> "none", owning |-> FALSE, m_haptic |-> 0]

HapticInit ==
  /\ hap = [x \in Haptics |-> NoHaptic]
  /\ sdlHapticCloseCalls = [d \in HapticPtrs |-> 0]
  /\ sdlRumble = [d \in HapticPtrs |-> "off"]

haptic_ptr_ctor_nothrow(owning, ptr) == FALSE
\* basic_haptic(SDL_Haptic*): throws exception when B::value and the pointer
\* is null
haptic_ptr_ctor_throws(owning, ptr) == owning /\ ptr = 0

\* basic_haptic(int), from_joystick, from_mouse: throw sdl_error when the
\* native open call returned null
haptic_open_throws(ptr) == ptr = 0

\* detail::pointer_manager<B, SDL_Haptic, deleter>: the deleter runs at
\* destruction for an owner that holds a device, never for a handle
pointer_manager_deletes(owning, ptr) == owning /\ ptr # 0

deleter_noop(ptr, c) == c
\* basic_haptic::deleter: SDL_HapticClose(haptic)
deleter(ptr, c) == [c EXCEPT ![ptr] = @ + 1]

\* detail::clamp(strength, 0.0f, 1.0f), strengths in tenths
clamp(v, lo, hi) == IF v < lo THEN lo ELSE IF v > hi THEN hi ELSE v

\* basic_haptic(SDL_Haptic* haptic), for the owning class and for the handle
HapticCtorPtr(x) ==
  /\ hap[x].life = "none"
  /\ \E owning \in BOOLEAN, ptr \in HapticPtrs :
       /\ hap' = [hap EXCEPT ![x] =
                    IF haptic_ptr_ctor_throws(owning, ptr)
                    THEN [life |-> "failed", owning |-> owning, m_haptic |-> 0]
                    ELSE [life |-> "alive", owning |-> owning, m_haptic |-> ptr]]
       /\ last' = [op |-> "haptic_ptr", x |-> x, owning |-> owning, ptr |-> ptr,
                   threw |-> IF haptic_ptr_ctor_throws(owning, ptr)
                             THEN "exception" ELSE "none"]
  /\ UNCHANGED <<sdlHapticCloseCalls, sdlRumble>>
  /\ HapticOnly

\* The owning constructors that open the device themselves: ptr is what
\* SDL_HapticOpen / SDL_HapticOpenFromJoystick / SDL_HapticOpenFromMouse returns
HapticOpen(x, via, ptr) ==
  /\ hap[x].life = "none"
  /\ hap' = [hap EXCEPT ![x] =
               IF haptic_open_throws(ptr)
               THEN [life |-> "failed", owning |-> TRUE, m_haptic |-> 0]
               ELSE [life |-> "alive", owning |-> TRUE, m_haptic |-> ptr]]
  /\ last' = [op |-> via, x |-> x, owning |-> TRUE, ptr |-> ptr,
              threw |-> IF haptic_open_throws(ptr) THEN "sdl_error" ELSE "none"]
  /\ UNCHANGED <<sdlHapticCloseCalls, sdlRumble>>
  /\ HapticOnly

\* basic_haptic(int index)
HapticCtorIndex(x) == \E ptr \in HapticPtrs : HapticOpen(x, "haptic_index", ptr)

\* basic_haptic::from_joystick
HapticFromJoystick(x) == \E ptr \in HapticPtrs : HapticOpen(x, "from_joystick", ptr)

\* basic_haptic::from_mouse
HapticFromMouse(x) == \E ptr \in HapticPtrs : HapticOpen(x, "from_mouse", ptr)

\* basic_haptic::init_rumble: SDL_HapticRumbleInit(m_haptic) == 0
HapticInitRumble(x) ==
  /\ hap[x].life = "alive"
  /\ \E res \in {0, -1} :
       /\ hap[x].m_haptic = 0 => res = -1
       /\ sdlRumble' = IF res = 0 THEN [sdlRumble EXCEPT ![hap[x].m_haptic] = "ready"]
                       ELSE sdlRumble
       /\ last' = [op |-> "init_rumble", x |-> x, ret |-> (res = 0)]
  /\ UNCHANGED <<hap, sdlHapticCloseCalls>>
  /\ HapticOnly

\* basic_haptic::play_rumble: SDL_HapticRumblePlay(m_haptic, clamp(strength), ms) == 0
HapticPlayRumble(x) ==
  /\ hap[x].life = "alive"
  /\ \E res \in {0, -1}, strength \in {-5, 5, 15} :
       /\ (hap[x].m_haptic = 0 \/ sdlRumble[hap[x].m_haptic] = "off") => res = -1
       /\ sdlRumble' = IF res = 0 THEN [sdlRumble EXCEPT ![hap[x].m_haptic] = "playing"]
                       ELSE sdlRumble
       /\ last' = [op |-> "play_rumble", x |-> x, strength |-> clamp(strength, 0, 10),
                   ret |-> (res = 0)]
  /\ UNCHANGED <<hap, sdlHapticCloseCalls>>
  /\ HapticOnly

\* basic_haptic::stop_rumble: SDL_HapticRumbleStop(m_haptic) == 0
HapticStopRumble(x) ==
  /\ hap[x].life = "alive"
  /\ \E res \in {0, -1} :
       /\ (hap[x].m_haptic = 0 \/ sdlRumble[hap[x].m_haptic] = "off") => res = -1
       /\ sdlRumble' = IF res = 0 THEN [sdlRumble EXCEPT ![hap[x].m_haptic] = "ready"]
                       ELSE sdlRumble
       /\ last' = [op |-> "stop_rumble", x |-> x, ret |-> (res = 0)]
  /\ UNCHANGED <<hap, sdlHapticCloseCalls>>
  /\ HapticOnly

\* ~basic_haptic: m_haptic is destroyed
HapticDtor(x) ==
  /\ hap[x].life = "alive"
  /\ hap' = [hap EXCEPT ![x].life = "dead"]
  /\ sdlHapticCloseCalls' =
       IF pointer_manager_deletes(hap[x].owning, hap[x].m_haptic)
       THEN deleter(hap[x].m_haptic, sdlHapticCloseCalls)
       ELSE sdlHapticCloseCalls
  /\ last' = [op |-> "~haptic", x |-> x, owning |-> hap[x].owning, ptr |-> hap[x].m_haptic]
  /\ UNCHANGED <<sdlRumble>>
  /\ HapticOnly

HapticNext ==
  \/ \E x \in Haptics : HapticCtorPtr(x)
  \/ \E x \in Haptics : HapticCtorIndex(x)
  \/ \E x \in Haptics : HapticFromJoystick(x)
  \/ \E x \in Haptics : HapticFromMouse(x)
  \/ \E x \in Haptics : HapticInitRumble(x)
  \/ \E x \in Haptics : HapticPlayRumble(x)
  \/ \E x \in Haptics : HapticStopRumble(x)
  \/ \E x \in Haptics : HapticDtor(x)

\* -------------------------------------------------------- centurion::music
NoMusic == [life |-> "none", m_music |-> 0]

MusicInit ==
  /\ mus = [m \in Musics |-> NoMusic]
  /\ nextMusic = 1
  /\ mix = [playing |-> 0, fading |-> "none", active |-> TRUE, volume |-> MIX_MAX_VOLUME]

music_ctor_nothrow(h) == FALSE
\* music::music: throws mix_error when Mix_LoadMUS returned null
music_ctor_throws(h) == h = 0

\* music::music(file): m_music{Mix_LoadMUS(file)}; the native call yields a
\* fresh handle (ok) or null, and null for the empty path
MusicCtor(m) ==
  /\ mus[m].life = "none"
  /\ \E file \in Files, ok \in BOOLEAN :
       LET h == IF ok /\ file # "" THEN nextMusic ELSE 0 IN
       /\ nextMusic' = IF h # 0 THEN nextMusic + 1 ELSE nextMusic
       /\ mus' = [mus EXCEPT ![m] =
                    IF music_ctor_throws(h) THEN [life |-> "failed", m_music |-> 0]
                    ELSE [life |-> "alive", m_music |-> h]]
       /\ last' = [op |-> "music", m |-> m, file |-> file, handle |-> h,
                   threw |-> IF music_ctor_throws(h) THEN "mix_error" ELSE "none"]
  /\ UNCHANGED mix
  /\ MusicOnly

\* The mixer behind the static functions of music.  A fade status is written
\* with the name of its fade_status enumerator (none, in, out), which
\* static_cast<fade_status> gives the value of Mix_FadingMusic().

\* Mix_PlayingMusic, Mix_PausedMusic, Mix_FadingMusic
Mix_PlayingMusic(mx) == mx.playing # 0
Mix_PausedMusic(mx) == ~mx.active
Mix_FadingMusic(mx) == IF mx.playing # 0 THEN mx.fading ELSE "none"

\* Mix_HaltMusic, Mix_PauseMusic, Mix_ResumeMusic
Mix_HaltMusic(mx) == [mx EXCEPT !.playing = 0, !.fading = "none"]
Mix_PauseMusic(mx) == [mx EXCEPT !.active = FALSE]
Mix_ResumeMusic(mx) == [mx EXCEPT !.active = TRUE]

\* Mix_FadeInMusic(music, loops, ms): music replaces what was playing (after
\* a running fade-out has completed), fading in when ms is not zero
Mix_FadeInMusic(mx, music, loops, ms) ==
  [mx EXCEPT !.playing = music, !.fading = IF ms # 0 THEN "in" ELSE "none",
             !.active = TRUE]

\* Mix_PlayMusic(music, loops)
Mix_PlayMusic(mx, music, loops) == Mix_FadeInMusic(mx, music, loops, 0)

\* Mix_FadeOutMusic(ms): halts at once when ms <= 0, otherwise starts the
\* fade-out of the music playing, whatever its fade was
Mix_FadeOutMusic(mx, ms) ==
  IF ms <= 0 THEN Mix_HaltMusic(mx)
  ELSE IF mx.playing # 0 THEN [mx EXCEPT !.fading = "out"]
  ELSE mx

\* Mix_VolumeMusic(volume): returns the volume in force before the call; a
\* negative volume only queries, one above MIX_MAX_VOLUME sets the maximum
Mix_VolumeMusic(mx, v) ==
  [mixer |-> IF v < 0 THEN mx
             ELSE [mx EXCEPT !.volume = IF v > MIX_MAX_VOLUME THEN MIX_MAX_VOLUME ELSE v],
   ret |-> mx.volume]

\* std::clamp(v, lo, hi)
std_clamp(v, lo, hi) == IF v < lo THEN lo ELSE IF hi < v THEN hi ELSE v

\* music::is_playing, music::is_paused, music::get_fade_status
is_playing(mx) == Mix_PlayingMusic(mx)
is_paused(mx) == Mix_PausedMusic(mx)
get_fade_status(mx) == Mix_FadingMusic(mx)

\* music::is_fading
is_fading(mx) == LET status == get_fade_status(mx) IN status = "in" \/ status = "out"

\* music::play and music::fade_in: nLoops below -1 becomes -1
clamp_loops(nLoops) == IF nLoops < -1 THEN -1 ELSE nLoops

clamp_ms_always(ms) == 0
\* music::fade_in and music::fade_out: a negative duration becomes 0
clamp_ms(ms) == IF ms < 0 THEN 0 ELSE ms

\* music::play
play(mx, m_music, nLoops) == Mix_PlayMusic(mx, m_music, clamp_loops(nLoops))

\* music::resume
resume(mx) == Mix_ResumeMusic(mx)

pause_resumes(mx) == Mix_ResumeMusic(mx)
\* music::pause
pause(mx) == Mix_PauseMusic(mx)

halt_pauses(mx) == Mix_PauseMusic(mx)
\* music::halt
halt(mx) == Mix_HaltMusic(mx)

\* music::fade_in
fade_in(mx, m_music, ms, nLoops) ==
  Mix_FadeInMusic(mx, m_music, clamp_loops(nLoops), clamp_ms(ms))

fade_out_unguarded(mx) == TRUE
\* music::fade_out: whether Mix_FadeOutMusic is called
fade_out_calls(mx) == ~is_fading(mx)

\* music::fade_out
fade_out(mx, ms) == IF fade_out_calls(mx) THEN Mix_FadeOutMusic(mx, clamp_ms(ms)) ELSE mx

set_volume_unclamped(mx, volume) == Mix_VolumeMusic(mx, volume).mixer
\* music::set_volume
set_volume(mx, volume) == Mix_VolumeMusic(mx, std_clamp(volume, 0, MIX_MAX_VOLUME)).mixer

\* music::volume: the value returned, and the mixer after the call
volume(mx) == Mix_VolumeMusic(mx, -1).ret
volume_mixer(mx) == Mix_VolumeMusic(mx, -1).mixer

\* What every call on music records: the call before it, and what the
\* queries said before the call
MusicCall(op, rest) ==
  last' = [op |-> op, prevOp |-> last.op, before |-> mix] @@ rest

MusicPlay(m) ==
  /\ mus[m].life = "alive"
  /\ \E nLoops \in LoopArgs :
       /\ mix' = play(mix, mus[m].m_music, nLoops)
       /\ MusicCall("play", [m |-> m, loops |-> clamp_loops(nLoops)])
  /\ UNCHANGED <<mus, nextMusic>>
  /\ MusicOnly

MusicFadeIn(m) ==
  /\ mus[m].life = "alive"
  /\ \E ms \in MsArgs, nLoops \in LoopArgs :
       /\ mix' = fade_in(mix, mus[m].m_music, ms, nLoops)
       /\ MusicCall("fade_in", [m |-> m, ms |-> ms, loops |-> clamp_loops(nLoops)])
  /\ UNCHANGED <<mus, nextMusic>>
  /\ MusicOnly

MusicFadeOut ==
  /\ \E ms \in MsArgs :
       /\ mix' = fade_out(mix, ms)
       /\ MusicCall("fade_out", [ms |-> ms,
                                 nativeCalls |-> IF fade_out_calls(mix) THEN 1 ELSE 0])
  /\ UNCHANGED <<mus, nextMusic>>
  /\ MusicOnly

MusicPause ==
  /\ mix' = pause(mix)
  /\ MusicCall("pause", [threw |-> "none"])
  /\ UNCHANGED <<mus, nextMusic>>
  /\ MusicOnly

MusicResume ==
  /\ mix' = resume(mix)
  /\ MusicCall("resume", [threw |-> "none"])
  /\ UNCHANGED <<mus, nextMusic>>
  /\ MusicOnly

MusicHalt ==
  /\ mix' = halt(mix)
  /\ MusicCall("halt", [threw |-> "none"])
  /\ UNCHANGED <<mus, nextMusic>>
  /\ MusicOnly

MusicSetVolume ==
  /\ \E v \in VolumeArgs :
       /\ mix' = set_volume(mix, v)
       /\ MusicCall("set_volume", [volume |-> v])
  /\ UNCHANGED <<mus, nextMusic>>
  /\ MusicOnly

MusicVolume ==
  /\ mix' = volume_mixer(mix)
  /\ MusicCall("volume", [ret |-> volume(mix)])
  /\ UNCHANGED <<mus, nextMusic>>
  /\ MusicOnly

\* The mixer at work while the channel is active: a fade-in reaches full
\* volume, a fade-out reaches silence and halts, the music plays to its end
MixerFadeInDone ==
  /\ mix.active /\ Mix_FadingMusic(mix) = "in"
  /\ mix' = [mix EXCEPT !.fading = "none"]
  /\ MusicCall("mixer", [event |-> "faded in"])
  /\ UNCHANGED <<mus, nextMusic>>
  /\ MusicOnly

MixerFadeOutDone ==
  /\ mix.active /\ Mix_FadingMusic(mix) = "out"
  /\ mix' = Mix_HaltMusic(mix)
  /\ MusicCall("mixer", [event |-> "faded out"])
  /\ UNCHANGED <<mus, nextMusic>>
  /\ MusicOnly

MixerMusicFinished ==
  /\ mix.active /\ Mix_PlayingMusic(mix)
  /\ mix' = Mix_HaltMusic(mix)
  /\ MusicCall("mixer", [event |-> "finished"])
  /\ UNCHANGED <<mus, nextMusic>>
  /\ MusicOnly

\* Playback
MusicNext ==
  \/ \E m \in Musics : MusicCtor(m)
  \/ \E m \in Musics : MusicPlay(m)
  \/ \E m \in Musics : MusicFadeIn(m)
  \/ MusicFadeOut
  \/ MusicPause
  \/ MusicResume
  \/ MusicHalt
  \/ MixerFadeInDone
  \/ MixerFadeOutDone
  \/ MixerMusicFinished

\* The volume, while music plays or not
MusicVolumeNext ==
  \/ \E m \in Musics : MusicCtor(m)
  \/ \E m \in Musics : MusicPlay(m)
  \/ MusicSetVolume
  \/ MusicVolume

\* ------------------------------------------------ centurion::basic_renderer
EmptyFonts == [k \in {} |-> 0]

NoRenderer ==
  [life |-> "none", m_renderer |-> 0, viewport |-> [x |-> 0, y |-> 0], m_fonts |-> EmptyFonts]

RendererInit ==
  /\ rnd = [r \in Renderers |-> NoRenderer]
  /\ sdlDestroyCalls = [h \in RendererPtrs |-> 0]
  /\ sdlRenderer = [h \in RendererPtrs |->
                      [color |-> black, blend |-> "none", integer_scale |-> FALSE,
                       target |-> 0, scale |-> [x |-> 2, y |-> 2],
                       logical |-> [width |-> 0, height |-> 0]]]
  /\ nextRenderer = 1
  /\ addedKeys = [r \in Renderers |-> {}]

\* basic_renderer::get
get(o) == o.m_renderer

\* basic_renderer::set_color on the native renderer n:
\* SDL_SetRenderDrawColor(m_renderer, red, green, blue, alpha)
set_color(n, c) == [n EXCEPT !.color = <<c[1], c[2], c[3], c[4]>>]

\* basic_renderer::color: SDL_GetRenderDrawColor into {red, green, blue, alpha}
color(n) == <<n.color[1], n.color[2], n.color[3], n.color[4]>>

\* basic_renderer::set_blend_mode
set_blend_mode(n, mode) == [n EXCEPT !.blend = mode]

\* basic_renderer::set_logical_integer_scale
set_logical_integer_scale(n, b) == [n EXCEPT !.integer_scale = b]

renderer_ctor_nothrow(h) == FALSE
\* basic_renderer(owner<SDL_Renderer*>), basic_renderer(const Window&, flags):
\* throw when the renderer pointer is null
renderer_ctor_throws(h) == h = 0

\* basic_renderer::destroy: SDL_DestroyRenderer(m_renderer) unless it is null
destroy(o, d) == IF o.m_renderer # 0 THEN [d EXCEPT ![o.m_renderer] = @ + 1] ELSE d

\* basic_renderer::move, this after the call
move_this(this, other) ==
  [this EXCEPT !.m_renderer = other.m_renderer, !.viewport = other.viewport]

move_other_keeps(other) == other
\* basic_renderer::move, other after the call
move_other(other) == [other EXCEPT !.m_renderer = 0]

move_assign_unguarded(dst, src) == TRUE
\* basic_renderer::operator=(basic_renderer&&): this != &other
move_assign_guard(dst, src) == dst # src

\* The constructors: h is the pointer given, or what SDL_CreateRenderer returned
RendererCreate(r, via, ok) ==
  /\ rnd[r].life = "none"
  /\ LET h == IF ok THEN nextRenderer ELSE 0 IN
     /\ nextRenderer' = IF ok THEN nextRenderer + 1 ELSE nextRenderer
     /\ rnd' = [rnd EXCEPT ![r] =
                  IF renderer_ctor_throws(h) THEN [NoRenderer EXCEPT !.life = "failed"]
                  ELSE [NoRenderer EXCEPT !.life = "alive", !.m_renderer = h]]
     /\ sdlRenderer' =
          IF renderer_ctor_throws(h) THEN sdlRenderer
          ELSE [sdlRenderer EXCEPT ![h] =
                  set_logical_integer_scale(
                    set_color(IF via = "renderer_window" THEN set_blend_mode(@, "blend") ELSE @,
                              black),
                    FALSE)]
     /\ last' = [op |-> via, r |-> r, handle |-> h,
                 threw |-> IF ~renderer_ctor_throws(h) THEN "none"
                           ELSE IF via = "renderer_window" THEN "sdl_error"
                           ELSE "CenturionException"]
  /\ UNCHANGED <<sdlDestroyCalls, addedKeys>>
  /\ RendererOnly

\* basic_renderer(gsl::owner<SDL_Renderer*> renderer)
RendererCtorPtr(r) == \E ok \in BOOLEAN : RendererCreate(r, "renderer_ptr", ok)

\* basic_renderer(const Window& window, SDL_RendererFlags flags)
RendererCtorWindow(r) == \E ok \in BOOLEAN : RendererCreate(r, "renderer_window", ok)

\* basic_renderer(basic_renderer&& other): move(std::move(other)) into a new object
RendererMoveCtor(dst, src) ==
  /\ dst # src
  /\ rnd[dst].life = "none"
  /\ rnd[src].life = "alive"
  /\ LET this == [NoRenderer EXCEPT !.life = "alive"] IN
     /\ sdlDestroyCalls' = destroy(this, sdlDestroyCalls)
     /\ rnd' = [rnd EXCEPT ![dst] = move_this(this, rnd[src]), ![src] = move_other(rnd[src])]
  /\ last' = [op |-> "move_ctor", dst |-> dst, src |-> src, srcHandle |-> get(rnd[src]),
              dstHandle |-> 0, srcBefore |-> rnd[src]]
  /\ UNCHANGED <<sdlRenderer, nextRenderer, addedKeys>>
  /\ RendererOnly

\* basic_renderer::operator=(basic_renderer&& other), other possibly *this
RendererMoveAssign(dst, src) ==
  /\ rnd[dst].life = "alive"
  /\ rnd[src].life = "alive"
  /\ IF move_assign_guard(dst, src)
     THEN /\ sdlDestroyCalls' = destroy(rnd[dst], sdlDestroyCalls)
          /\ rnd' = IF dst = src
                    THEN [rnd EXCEPT ![dst] = move_other(move_this(rnd[dst], rnd[dst]))]
                    ELSE [rnd EXCEPT ![dst] = move_this(rnd[dst], rnd[src]),
                                     ![src] = move_other(rnd[src])]
     ELSE UNCHANGED <<rnd, sdlDestroyCalls>>
  /\ last' = [op |-> "move_assign", dst |-> dst, src |-> src, srcHandle |-> get(rnd[src]),
              dstHandle |-> get(rnd[dst]), srcBefore |-> rnd[src]]
  /\ UNCHANGED <<sdlRenderer, nextRenderer, addedKeys>>
  /\ RendererOnly

\* ~basic_renderer: destroy()
RendererDtor(r) ==
  /\ rnd[r].life = "alive"
  /\ sdlDestroyCalls' = destroy(rnd[r], sdlDestroyCalls)
  /\ rnd' = [rnd EXCEPT ![r].life = "dead"]
  /\ last' = [op |-> "~renderer", r |-> r, handle |-> get(rnd[r])]
  /\ UNCHANGED <<sdlRenderer, nextRenderer, addedKeys>>
  /\ RendererOnly

\* basic_renderer::has_font: m_fonts.count(key)
has_font(o, key) == key \in DOMAIN o.m_fonts

\* basic_renderer::font: m_fonts.at(key) if m_fonts.count(key), else nullptr
font(o, key) == IF key \in DOMAIN o.m_fonts THEN o.m_fonts[key] ELSE 0

\* basic_renderer::add_font: m_fonts.emplace(key, font) unless m_fonts.count(key)
add_font(fonts, key, f) ==
  IF key \in DOMAIN fonts THEN fonts
  ELSE [k \in DOMAIN fonts \cup {key} |-> IF k = key THEN f ELSE fonts[k]]

\* basic_renderer::remove_font: m_fonts.erase(key)
remove_font(fonts, key) == [k \in DOMAIN fonts \ {key} |-> fonts[k]]

RendererAddFont(r) ==
  /\ rnd[r].life = "alive"
  /\ \E key \in FontKeys, f \in FontPtrs :
       /\ rnd' = [rnd EXCEPT ![r].m_fonts = add_font(@, key, f)]
       /\ addedKeys' = [addedKeys EXCEPT ![r] = @ \cup {key}]
       /\ last' = [op |-> "add_font", r |-> r, key |-> key, font |-> f,
                   before |-> rnd[r].m_fonts]
  /\ UNCHANGED <<sdlDestroyCalls, sdlRenderer, nextRenderer>>
  /\ RendererOnly

RendererRemoveFont(r) ==
  /\ rnd[r].life = "alive"
  /\ \E key \in FontKeys :
       /\ rnd' = [rnd EXCEPT ![r].m_fonts = remove_font(@, key)]
       /\ addedKeys' = [addedKeys EXCEPT ![r] = @ \ {key}]
       /\ last' = [op |-> "remove_font", r |-> r, key |-> key, before |-> rnd[r].m_fonts]
  /\ UNCHANGED <<sdlDestroyCalls, sdlRenderer, nextRenderer>>
  /\ RendererOnly

\* static_cast<int> of a float (counted in halves): truncation toward zero
static_cast_int(f) == IF f >= 0 THEN f \div 2 ELSE -((-f) \div 2)

\* static_cast<float> of an int, counted in halves
static_cast_float(i) == 2 * i

\* basic_renderer::tx
tx(T, x, vp) == IF T = "int" THEN x - static_cast_int(vp.x) ELSE x - vp.x

\* basic_renderer::ty
ty(T, y, vp) == IF T = "int" THEN y - static_cast_int(vp.y) ELSE y - vp.y

\* basic_renderer::translate(const Point<T>&): Point<T>{tx(point.x()), tx(point.y())}
translate_point(T, p, vp) == [x |-> tx(T, p.x, vp), y |-> tx(T, p.y, vp)]

\* basic_renderer::translate(const Rect<T>&): {translate(rect.position()), rect.size()}
translate_rect(T, rect, vp) ==
  LET p == translate_point(T, [x |-> rect.x, y |-> rect.y], vp)
  IN [x |-> p.x, y |-> p.y, width |-> rect.width, height |-> rect.height]

\* basic_renderer::render(texture, position): SDL_RenderCopy(F) to
\* dst{x, y, texture.width(), texture.height()}
render_point(T, texture, p) ==
  IF T = "int"
  THEN [call |-> "SDL_RenderCopy", x |-> p.x, y |-> p.y,
        width |-> texture.width, height |-> texture.height]
  ELSE [call |-> "SDL_RenderCopyF", x |-> p.x, y |-> p.y,
        width |-> static_cast_float(texture.width),
        height |-> static_cast_float(texture.height)]

\* basic_renderer::render(texture, destination): SDL_RenderCopy(F) to destination
render_rect(T, texture, rect) ==
  [call |-> IF T = "int" THEN "SDL_RenderCopy" ELSE "SDL_RenderCopyF",
   x |-> rect.x, y |-> rect.y, width |-> rect.width, height |-> rect.height]

\* basic_renderer::draw_rect: SDL_RenderDrawRect(F)
draw_rect(T, rect) ==
  [call |-> IF T = "int" THEN "SDL_RenderDrawRect" ELSE "SDL_RenderDrawRectF",
   x |-> rect.x, y |-> rect.y, width |-> rect.width, height |-> rect.height]

\* basic_renderer::fill_rect: SDL_RenderFillRect(F)
fill_rect(T, rect) ==
  [call |-> IF T = "int" THEN "SDL_RenderFillRect" ELSE "SDL_RenderFillRectF",
   x |-> rect.x, y |-> rect.y, width |-> rect.width, height |-> rect.height]

clear_with_norestore(n, c) == set_color(n, c)
\* basic_renderer::clear_with: the native renderer after the call
clear_with(n, c) ==
  LET oldColor == color(n)
      cleared == set_color(n, c)      \* clear() happens here
  IN set_color(cleared, oldColor)

\* basic_renderer::clear_with: the draw color in force when clear() runs
clear_with_clears(n, c) == color(set_color(n, c))

\* A renderer that can draw: alive and holding a native renderer
CanDraw(r) == rnd[r].life = "alive" /\ rnd[r].m_renderer # 0

\* basic_renderer::set_translation_viewport
RendererSetTranslationViewport(r) ==
  /\ rnd[r].life = "alive"
  /\ \E vx \in ViewportCoords, vy \in ViewportCoords :
       /\ rnd' = [rnd EXCEPT ![r].viewport = [x |-> vx, y |-> vy]]
       /\ last' = [op |-> "set_translation_viewport", r |-> r]
  /\ UNCHANGED <<sdlDestroyCalls, sdlRenderer, nextRenderer, addedKeys>>
  /\ RendererOnly

\* basic_renderer::set_color
RendererSetColor(r) ==
  /\ CanDraw(r)
  /\ \E c \in Colors :
       /\ sdlRenderer' = [sdlRenderer EXCEPT ![rnd[r].m_renderer] = set_color(@, c)]
       /\ last' = [op |-> "set_color", r |-> r, c |-> c]
  /\ UNCHANGED <<rnd, sdlDestroyCalls, nextRenderer, addedKeys>>
  /\ RendererOnly

\* basic_renderer::clear: SDL_RenderClear with the current draw color
RendererClear(r) ==
  /\ CanDraw(r)
  /\ last' = [op |-> "clear", r |-> r, cleared |-> color(sdlRenderer[rnd[r].m_renderer])]
  /\ UNCHANGED rendererVars
  /\ RendererOnly

\* basic_renderer::clear_with
RendererClearWith(r) ==
  /\ CanDraw(r)
  /\ \E c \in Colors :
       /\ sdlRenderer' = [sdlRenderer EXCEPT ![rnd[r].m_renderer] = clear_with(@, c)]
       /\ last' = [op |-> "clear_with", r |-> r, c |-> c,
                   before |-> color(sdlRenderer[rnd[r].m_renderer]),
                   cleared |-> clear_with_clears(sdlRenderer[rnd[r].m_renderer], c)]
  /\ UNCHANGED <<rnd, sdlDestroyCalls, nextRenderer, addedKeys>>
  /\ RendererOnly

\* A translated draw: the call issued on the native renderer is recorded
TranslatedDraw(r, op, T, inX, inY, inW, inH, drawn) ==
  /\ last' = [op |-> op, r |-> r, T |-> T, x |-> inX, y |-> inY, width |-> inW,
              height |-> inH, vp |-> rnd[r].viewport, drawn |-> drawn]
  /\ UNCHANGED rendererVars
  /\ RendererOnly

\* basic_renderer::render_t(texture, position)
RendererRenderTPoint(r) ==
  /\ CanDraw(r)
  /\ \E T \in NumberTypes, x \in PointCoords, y \in PointCoords, tex \in Textures :
       TranslatedDraw(r, "render_t", T, x, y,
                      IF T = "int" THEN tex.width ELSE static_cast_float(tex.width),
                      IF T = "int" THEN tex.height ELSE static_cast_float(tex.height),
                      render_point(T, tex, translate_point(T, [x |-> x, y |-> y],
                                                           rnd[r].viewport)))

\* basic_renderer::render_t(texture, destination)
RendererRenderTRect(r) ==
  /\ CanDraw(r)
  /\ \E T \in NumberTypes, x \in PointCoords, y \in PointCoords, s \in RectSizes,
        tex \in Textures :
       TranslatedDraw(r, "render_t", T, x, y, s.width, s.height,
                      render_rect(T, tex,
                                  translate_rect(T, [x |-> x, y |-> y, width |-> s.width,
                                                     height |-> s.height], rnd[r].viewport)))

\* basic_renderer::draw_rect_t
RendererDrawRectT(r) ==
  /\ CanDraw(r)
  /\ \E T \in NumberTypes, x \in PointCoords, y \in PointCoords, s \in RectSizes :
       TranslatedDraw(r, "draw_rect_t", T, x, y, s.width, s.height,
                      draw_rect(T, translate_rect(T, [x |-> x, y |-> y, width |-> s.width,
                                                      height |-> s.height], rnd[r].viewport)))

\* basic_renderer::fill_rect_t
RendererFillRectT(r) ==
  /\ CanDraw(r)
  /\ \E T \in NumberTypes, x \in PointCoords, y \in PointCoords, s \in RectSizes :
       TranslatedDraw(r, "fill_rect_t", T, x, y, s.width, s.height,
                      fill_rect(T, translate_rect(T, [x |-> x, y |-> y, width |-> s.width,
                                                      height |-> s.height], rnd[r].viewport)))

set_target_any(texture) == IF ~texture.null THEN texture.get ELSE 0
\* basic_renderer::set_target: the texture given to SDL_SetRenderTarget
set_target(texture) == IF ~texture.null /\ texture.is_target THEN texture.get ELSE 0

set_scale_either(xScale, yScale) == xScale > 0 \/ yScale > 0
\* basic_renderer::set_scale: whether SDL_RenderSetScale is called
set_scale_calls(xScale, yScale) == xScale > 0 /\ yScale > 0

set_logical_size_either(size) == size.width > 0 \/ size.height > 0
\* basic_renderer::set_logical_size: whether SDL_RenderSetLogicalSize is called
set_logical_size_calls(size) == size.width > 0 /\ size.height > 0

\* basic_renderer::x_scale, y_scale: SDL_RenderGetScale
x_scale(n) == n.scale.x
y_scale(n) == n.scale.y

\* basic_renderer::logical_width, logical_height: SDL_RenderGetLogicalSize
logical_width(n) == n.logical.width
logical_height(n) == n.logical.height

\* The TTF call made by the lambda of each text rendering method
ttf_call(method) ==
  CASE method = "text_blended" -> "TTF_RenderText_Blended"
    [] method = "text_blended_wrapped" -> "TTF_RenderText_Blended_Wrapped"
    [] method = "text_shaded" -> "TTF_RenderText_Shaded"
    [] method = "text_solid" -> "TTF_RenderText_Solid"

render_text_nonull(text, surface, texture) ==
  [ret |-> texture, ttfCalls |-> 1,
   createCalls |-> IF surface = 0 THEN 0 ELSE 1,
   freeCalls |-> IF surface = 0 THEN 0 ELSE 1, freed |-> surface]
render_text_leaks(text, surface, texture) ==
  IF text = "null"
  THEN [ret |-> 0, ttfCalls |-> 0, createCalls |-> 0, freeCalls |-> 0, freed |-> 0]
  ELSE IF surface = 0
  THEN [ret |-> 0, ttfCalls |-> 1, createCalls |-> 0, freeCalls |-> 0, freed |-> 0]
  ELSE IF texture = 0
  THEN [ret |-> 0, ttfCalls |-> 1, createCalls |-> 1, freeCalls |-> 0, freed |-> 0]
  ELSE [ret |-> texture, ttfCalls |-> 1, createCalls |-> 1, freeCalls |-> 1,
        freed |-> surface]
\* basic_renderer::render_text: surface is what render(text) yields when it
\* is called, texture what SDL_CreateTextureFromSurface yields when it is
\* called (0 is null); the result is the unique_ptr returned (0 is nullptr,
\* otherwise a Texture owning that SDL_Texture*), the native calls made and
\* the surface given to SDL_FreeSurface (0 when it is not called)
render_text(text, surface, texture) ==
  IF text = "null"
  THEN [ret |-> 0, ttfCalls |-> 0, createCalls |-> 0, freeCalls |-> 0, freed |-> 0]
  ELSE IF surface = 0
  THEN [ret |-> 0, ttfCalls |-> 1, createCalls |-> 0, freeCalls |-> 0, freed |-> 0]
  ELSE [ret |-> IF texture # 0 THEN texture ELSE 0,
        ttfCalls |-> 1, createCalls |-> 1, freeCalls |-> 1, freed |-> surface]

\* basic_renderer::set_target
RendererSetTarget(r) ==
  /\ CanDraw(r)
  /\ \E texture \in TargetTextures :
       /\ sdlRenderer' = [sdlRenderer EXCEPT ![rnd[r].m_renderer].target = set_target(texture)]
       /\ last' = [op |-> "set_target", r |-> r, texture |-> texture,
                   before |-> sdlRenderer[rnd[r].m_renderer].target]
  /\ UNCHANGED <<rnd, sdlDestroyCalls, nextRenderer, addedKeys>>
  /\ RendererOnly

\* basic_renderer::set_scale
RendererSetScale(r) ==
  /\ CanDraw(r)
  /\ \E xScale \in ScaleValues, yScale \in ScaleValues :
       /\ sdlRenderer' =
            IF set_scale_calls(xScale, yScale)
            THEN [sdlRenderer EXCEPT ![rnd[r].m_renderer].scale = [x |-> xScale, y |-> yScale]]
            ELSE sdlRenderer
       /\ last' = [op |-> "set_scale", r |-> r, xScale |-> xScale, yScale |-> yScale,
                   before |-> sdlRenderer[rnd[r].m_renderer],
                   nativeCalls |-> IF set_scale_calls(xScale, yScale) THEN 1 ELSE 0]
  /\ UNCHANGED <<rnd, sdlDestroyCalls, nextRenderer, addedKeys>>
  /\ RendererOnly

\* basic_renderer::set_logical_size
RendererSetLogicalSize(r) ==
  /\ CanDraw(r)
  /\ \E w \in SizeValues, h \in SizeValues :
       LET size == [width |-> w, height |-> h] IN
       /\ sdlRenderer' =
            IF set_logical_size_calls(size)
            THEN [sdlRenderer EXCEPT ![rnd[r].m_renderer].logical =
                                       [width |-> size.width, height |-> size.height]]
            ELSE sdlRenderer
       /\ last' = [op |-> "set_logical_size", r |-> r, size |-> size,
                   before |-> sdlRenderer[rnd[r].m_renderer],
                   nativeCalls |-> IF set_logical_size_calls(size) THEN 1 ELSE 0]
  /\ UNCHANGED <<rnd, sdlDestroyCalls, nextRenderer, addedKeys>>
  /\ RendererOnly

\* basic_renderer::text_blended, text_blended_wrapped, text_shaded, text_solid:
\* render_text(text, lambda making the TTF call with color())
RendererText(r) ==
  /\ CanDraw(r)
  /\ \E method \in TextMethods, text \in Texts, surface \in SurfacePtrs, texture \in 0..1 :
       LET res == render_text(text, surface, texture) IN
       last' = [op |-> "text", r |-> r, method |-> method, text |-> text,
                surface |-> surface, texture |-> texture, threw |-> "none",
                ttf |-> IF res.ttfCalls > 0 THEN ttf_call(method) ELSE "none",
                ttfColor |-> color(sdlRenderer[rnd[r].m_renderer]),
                ttfCalls |-> res.ttfCalls, createCalls |-> res.createCalls,
                freeCalls |-> res.freeCalls, freed |-> res.freed, ret |-> res.ret]
  /\ UNCHANGED rendererVars
  /\ RendererOnly

\* Construction, moves and destruction of renderers
RendererOwnNext ==
  \/ \E r \in Renderers : RendererCtorPtr(r)
  \/ \E r \in Renderers : RendererCtorWindow(r)
  \/ \E dst \in Renderers, src \in Renderers : RendererMoveCtor(dst, src)
  \/ \E dst \in Renderers, src \in Renderers : RendererMoveAssign(dst, src)
  \/ \E r \in Renderers : RendererDtor(r)

\* Renderers with fonts and a translation viewport, moved
RendererMoveNext ==
  \/ \E r \in Renderers : RendererCtorPtr(r)
  \/ \E r \in Renderers : RendererAddFont(r)
  \/ \E r \in Renderers : RendererSetTranslationViewport(r)
  \/ \E dst \in Renderers, src \in Renderers : RendererMoveCtor(dst, src)
  \/ \E dst \in Renderers, src \in Renderers : RendererMoveAssign(dst, src)

\* The font map of a renderer
RendererFontNext ==
  \/ \E r \in Renderers : RendererCtorPtr(r)
  \/ \E r \in Renderers : RendererAddFont(r)
  \/ \E r \in Renderers : RendererRemoveFont(r)

\* The draw color of a renderer
RendererColorNext ==
  \/ \E r \in Renderers : RendererCtorPtr(r)
  \/ \E r \in Renderers : RendererSetColor(r)
  \/ \E r \in Renderers : RendererClear(r)
  \/ \E r \in Renderers : RendererClearWith(r)

\* The render target of a renderer
RendererTargetNext ==
  \/ \E r \in Renderers : RendererCtorPtr(r)
  \/ \E r \in Renderers : RendererCtorWindow(r)
  \/ \E r \in Renderers : RendererSetTarget(r)

\* The scale and the logical size of one renderer
RendererScaleNext ==
  \/ RendererCtorPtr(1)
  \/ RendererSetScale(1)
  \/ RendererSetLogicalSize(1)

\* Text rendering in the selected color
RendererTextNext ==
  \/ \E r \in Renderers : RendererCtorPtr(r)
  \/ \E r \in Renderers : RendererSetColor(r)
  \/ \E r \in Renderers : RendererText(r)

\* Drawing through the translation viewport
RendererDrawNext ==
  \/ \E r \in Renderers : RendererCtorWindow(r)
  \/ \E r \in Renderers : RendererSetTranslationViewport(r)
  \/ \E r \in Renderers : RendererRenderTPoint(r)
  \/ \E r \in Renderers : RendererRenderTRect(r)
  \/ \E r \in Renderers : RendererDrawRectT(r)
  \/ \E r \in Renderers : RendererFillRectT(r)

\* ------------------------------------------------------------ cen::library
\* CenturionTest::SetUp: mocks::reset_core(), then the return values of a
\* successful initialization
SetUpFakes ==
  [SDL_Init |-> [return_val |-> cfg.coreFlags, call_count |-> 0, arg0_val |-> 0],
   TTF_Init |-> [return_val |-> 0, call_count |-> 0, arg0_val |-> 0],
   IMG_Init |-> [return_val |-> cfg.imageFlags, call_count |-> 0, arg0_val |-> 0],
   Mix_Init |-> [return_val |-> cfg.mixerFlags, call_count |-> 0, arg0_val |-> 0],
   Mix_OpenAudio |-> [return_val |-> 0, call_count |-> 0, arg0_val |-> 0]]

LibraryInit == fake = SetUpFakes

\* A call of a fake: counted, its first argument kept
call_fake(fk, f, arg0) == [fk EXCEPT ![f].call_count = @ + 1, ![f].arg0_val = arg0]

init_fails_negative(f, ret) == ret < 0
\* Whether the value a native initialization function returned is a failure
init_fails(f, ret) ==
  CASE f = "SDL_Init" -> ret < 0
    [] f = "TTF_Init" -> ret = -1
    [] f = "IMG_Init" -> ret = 0
    [] f = "Mix_Init" -> ret = 0
    [] f = "Mix_OpenAudio" -> ret = -1

\* The exception that reports the failure of each initialization function
init_error(f) ==
  CASE f = "SDL_Init" -> "sdl_error"
    [] f = "TTF_Init" -> "ttf_error"
    [] f = "IMG_Init" -> "img_error"
    [] f = "Mix_Init" -> "mix_error"
    [] f = "Mix_OpenAudio" -> "mix_error"

\* The first argument of each initialization call under cen::config{}
init_arg0(f) ==
  CASE f = "SDL_Init" -> cfg.coreFlags
    [] f = "TTF_Init" -> 0
    [] f = "IMG_Init" -> cfg.imageFlags
    [] f = "Mix_Init" -> cfg.mixerFlags
    [] f = "Mix_OpenAudio" -> cfg.mixerFreq

\* The order in which cen::library initializes the subsystems
InitOrder == <<"SDL_Init", "TTF_Init", "IMG_Init", "Mix_Init", "Mix_OpenAudio">>

\* cen::library::library(): the calls are made in order up to the first one
\* that fails, whose exception is thrown; i is the next call to make
RECURSIVE library_init(_, _)
library_init(fk, i) ==
  IF i > Len(InitOrder) THEN [fake |-> fk, threw |-> "none"]
  ELSE LET f == InitOrder[i]
           called == call_fake(fk, f, init_arg0(f))
       IN IF init_fails(f, fk[f].return_val)
          THEN [fake |-> called, threw |-> init_error(f)]
          ELSE library_init(called, i + 1)

\* A test sets the value a fake returns
FakeSetReturnVal ==
  /\ \E f \in InitFunctions : \E v \in FakeReturnVals[f] :
       /\ fake' = [fake EXCEPT ![f].return_val = v]
       /\ last' = [op |-> "return_val", f |-> f, v |-> v]
  /\ LibraryOnly

\* CenturionTest::SetUp
FakeSetUp ==
  /\ fake' = SetUpFakes
  /\ last' = [op |-> "SetUp"]
  /\ LibraryOnly

\* cen::library library; (or the temporary cen::library{})
LibraryCtor ==
  /\ fake["SDL_Init"].call_count < MaxLibraries
  /\ LET res == library_init(fake, 1) IN
     /\ fake' = res.fake
     /\ last' = [op |-> "library", before |-> fake, threw |-> res.threw]
  /\ LibraryOnly

LibraryNext ==
  \/ FakeSetReturnVal
  \/ FakeSetUp
  \/ LibraryCtor

\* ------------------------------------ MouseButtonEvent, ControllerButtonEvent
NoMouseButtonEvent ==
  [windowID |-> 0, which |-> 0, button |-> 0, state |-> 0, clicks |-> 0, x |-> 0, y |-> 0]
NoControllerButtonEvent == [button |-> 0, state |-> 0, which |-> 0]

EventInit ==
  /\ ev = [mouse |-> [life |-> "none", m_event |-> NoMouseButtonEvent],
           controller |-> [life |-> "none", m_event |-> NoControllerButtonEvent]]
  /\ evSet = [mouse |-> NoMouseButtonEvent, controller |-> NoControllerButtonEvent]

\* static_cast<u8> of an enumerator
static_cast_u8(v) == v % 256

\* MouseButtonEvent: the setters, on m_event
MouseButtonEvent_set_window_id(e, id) == [e EXCEPT !.windowID = id]
MouseButtonEvent_set_which(e, which) == [e EXCEPT !.which = which]
MouseButtonEvent_set_button(e, button) == [e EXCEPT !.button = static_cast_u8(button)]
MouseButtonEvent_set_state(e, state) == [e EXCEPT !.state = static_cast_u8(state)]
MouseButtonEvent_set_clicks(e, clicks) == [e EXCEPT !.clicks = clicks]
MouseButtonEvent_set_x(e, x) == [e EXCEPT !.x = x]
MouseButtonEvent_set_y(e, y) == [e EXCEPT !.y = y]

\* MouseButtonEvent: the getters; static_cast<MouseButton> and
\* static_cast<ButtonState> of a u8 keep its value
MouseButtonEvent_window_id(e) == e.windowID
MouseButtonEvent_which(e) == e.which
MouseButtonEvent_button(e) == e.button
MouseButtonEvent_state(e) == e.state
MouseButtonEvent_clicks(e) == e.clicks
MouseButtonEvent_x(e) == e.x
MouseButtonEvent_y(e) == e.y

\* ControllerButtonEvent: the setters, on m_event
ControllerButtonEvent_set_button(e, button) == [e EXCEPT !.button = static_cast_u8(button)]
ControllerButtonEvent_set_state(e, state) == [e EXCEPT !.state = static_cast_u8(state)]
ControllerButtonEvent_set_which(e, id) == [e EXCEPT !.which = id]

\* ControllerButtonEvent: the getters
ControllerButtonEvent_button(e) == e.button
ControllerButtonEvent_state(e) == e.state
ControllerButtonEvent_which(e) == e.which

\* MouseButtonEvent(const SDL_MouseButtonEvent&)
MouseButtonEventCtor ==
  /\ ev.mouse.life = "none"
  /\ \E event \in SDLMouseButtonEvents :
       /\ ev' = [ev EXCEPT !.mouse = [life |-> "alive", m_event |-> event]]
       /\ evSet' = [evSet EXCEPT !.mouse = event]
       /\ last' = [op |-> "MouseButtonEvent", event |-> event]
  /\ EventOnly

\* ControllerButtonEvent(const SDL_ControllerButtonEvent&)
ControllerButtonEventCtor ==
  /\ ev.controller.life = "none"
  /\ \E event \in SDLControllerButtonEvents :
       /\ ev' = [ev EXCEPT !.controller = [life |-> "alive", m_event |-> event]]
       /\ evSet' = [evSet EXCEPT !.controller = event]
       /\ last' = [op |-> "ControllerButtonEvent", event |-> event]
  /\ EventOnly

\* A setter call on the wrapper w: m_event after it, the getter it belongs
\* to and the value passed
EventSet(w, setter, after, getter, v) ==
  /\ ev[w].life = "alive"
  /\ ev' = [ev EXCEPT ![w].m_event = after]
  /\ evSet' = [evSet EXCEPT ![w][getter] = v]
  /\ last' = [op |-> setter, w |-> w, v |-> v, before |-> ev[w].m_event]
  /\ EventOnly

MouseButtonEventSetWindowId ==
  \E v \in U32Values :
    EventSet("mouse", "set_window_id", MouseButtonEvent_set_window_id(ev.mouse.m_event, v),
             "windowID", v)

MouseButtonEventSetWhich ==
  \E v \in U32Values :
    EventSet("mouse", "set_which", MouseButtonEvent_set_which(ev.mouse.m_event, v), "which", v)

MouseButtonEventSetButton ==
  \E v \in MouseButtons :
    EventSet("mouse", "set_button", MouseButtonEvent_set_button(ev.mouse.m_event, v),
             "button", v)

MouseButtonEventSetState ==
  \E v \in ButtonStates :
    EventSet("mouse", "set_state", MouseButtonEvent_set_state(ev.mouse.m_event, v), "state", v)

MouseButtonEventSetClicks ==
  \E v \in ClickValues :
    EventSet("mouse", "set_clicks", MouseButtonEvent_set_clicks(ev.mouse.m_event, v),
             "clicks", v)

MouseButtonEventSetX ==
  \E v \in I32Values :
    EventSet("mouse", "set_x", MouseButtonEvent_set_x(ev.mouse.m_event, v), "x", v)

MouseButtonEventSetY ==
  \E v \in I32Values :
    EventSet("mouse", "set_y", MouseButtonEvent_set_y(ev.mouse.m_event, v), "y", v)

ControllerButtonEventSetButton ==
  \E v \in GameControllerButtons :
    EventSet("controller", "set_button",
             ControllerButtonEvent_set_button(ev.controller.m_event, v), "button", v)

ControllerButtonEventSetState ==
  \E v \in ButtonStates :
    EventSet("controller", "set_state",
             ControllerButtonEvent_set_state(ev.controller.m_event, v), "state", v)

ControllerButtonEventSetWhich ==
  \E v \in JoystickIds :
    EventSet("controller", "set_which",
             ControllerButtonEvent_set_which(ev.controller.m_event, v), "which", v)

EventNext ==
  \/ MouseButtonEventCtor
  \/ MouseButtonEventSetWindowId
  \/ MouseButtonEventSetWhich
  \/ MouseButtonEventSetButton
  \/ MouseButtonEventSetState
  \/ MouseButtonEventSetClicks
  \/ MouseButtonEventSetX
  \/ MouseButtonEventSetY
  \/ ControllerButtonEventCtor
  \/ ControllerButtonEventSetButton
  \/ ControllerButtonEventSetState
  \/ ControllerButtonEventSetWhich

\* ------------------------------------------------- mouse_wheel_direction
\* enum class mouse_wheel_direction: SDL_MOUSEWHEEL_NORMAL, SDL_MOUSEWHEEL_FLIPPED
mouse_wheel_direction == [normal |-> 0, flipped |-> 1]

EnumInit == stream = <<>>

to_string_lenient(dir) ==
  IF dir = mouse_wheel_direction.flipped
  THEN [threw |-> "none", ret |-> "flipped"]
  ELSE [threw |-> "none", ret |-> "normal"]
\* to_string(mouse_wheel_direction): the switch over the enumerators and its
\* default branch
to_string(dir) ==
  CASE dir = mouse_wheel_direction.normal -> [threw |-> "none", ret |-> "normal"]
    [] dir = mouse_wheel_direction.flipped -> [threw |-> "none", ret |-> "flipped"]
    [] OTHER -> [threw |-> "cen_error", ret |-> "none"]

\* operator<<(std::ostream&, mouse_wheel_direction): stream << to_string(dir);
\* an exception of to_string leaves before the stream is written
operator_shl(s, dir) ==
  IF to_string(dir).threw # "none" THEN s ELSE Append(s, to_string(dir).ret)

EnumToString ==
  /\ \E dir \in DirValues :
       last' = [op |-> "to_string", dir |-> dir, before |-> stream,
                threw |-> to_string(dir).threw, ret |-> to_string(dir).ret]
  /\ UNCHANGED stream
  /\ EnumOnly

EnumStreamOut ==
  /\ Len(stream) < MaxStream
  /\ \E dir \in DirValues :
       /\ stream' = operator_shl(stream, dir)
       /\ last' = [op |-> "operator<<", dir |-> dir, before |-> stream,
                   threw |-> to_string(dir).threw, ret |-> "none"]
  /\ EnumOnly

EnumNext ==
  \/ EnumToString
  \/ EnumStreamOut

\* ------------------------------------------------------ Texture::streaming
\* A native texture before SDL_CreateTexture yields it
NoTexture == [format |-> "none", locked |-> FALSE, calls |-> <<>>, pixels |-> "none"]

TextureInit ==
  /\ sdlTexture = [h \in TextureHandles |-> NoTexture]
  /\ nextTexture = 1

\* Texture::lock(&pixels): the native texture after the call; ok is whether
\* the lock succeeds, which is what the call returns
lock(n, ok) ==
  [n EXCEPT !.locked = IF ok THEN TRUE ELSE @, !.calls = Append(@, "lock")]

\* Texture::unlock(): the native texture after the call
unlock(n) == [n EXCEPT !.locked = FALSE, !.calls = Append(@, "unlock")]

streaming_nounlock(n, path, format, outcome) ==
  IF outcome \in {"no surface", "no texture"}
  THEN [threw |-> "CenturionException", returned |-> FALSE, texture |-> n]
  ELSE LET created == [n EXCEPT !.format = format]
           locked == lock(created, outcome # "no lock")
       IN IF outcome = "no lock"
          THEN [threw |-> "CenturionException", returned |-> FALSE, texture |-> locked]
          ELSE [threw |-> "none", returned |-> TRUE,
                texture |-> [locked EXCEPT !.pixels = path]]
\* Texture::streaming(renderer, path, format), on the native texture n that
\* SDL_CreateTexture yields: creating the surface or the texture may throw;
\* then lock, the check of its result, memcpy of the surface's pixels, unlock
streaming(n, path, format, outcome) ==
  IF outcome \in {"no surface", "no texture"}
  THEN [threw |-> "CenturionException", returned |-> FALSE, texture |-> n]
  ELSE LET created == [n EXCEPT !.format = format]
           locked == lock(created, outcome # "no lock")
       IN IF outcome = "no lock"
          THEN [threw |-> "CenturionException", returned |-> FALSE, texture |-> locked]
          ELSE [threw |-> "none", returned |-> TRUE,
                texture |-> unlock([locked EXCEPT !.pixels = path])]

TextureStreaming ==
  /\ nextTexture <= NumTextures
  /\ \E path \in Paths, format \in PixelFormats, outcome \in StreamingOutcomes :
       LET made == outcome \in {"no lock", "ok"}
           r == streaming(sdlTexture[nextTexture], path, format, outcome)
       IN /\ sdlTexture' = [sdlTexture EXCEPT ![nextTexture] = r.texture]
          /\ nextTexture' = IF made THEN nextTexture + 1 ELSE nextTexture
          /\ last' = [op |-> "streaming", path |-> path, format |-> format,
                      outcome |-> outcome, handle |-> IF made THEN nextTexture ELSE 0,
                      threw |-> r.threw, ret |-> IF r.returned THEN nextTexture ELSE 0]
  /\ TextureOnly

TextureNext == TextureStreaming

\* --------------------------------------------------------------- MouseState
\* SDL_BUTTON(X): 1 << (X - 1)
SDL_BUTTON(X) == 2 ^ (X - 1)
SDL_BUTTON_LMASK == 1
SDL_BUTTON_RMASK == 4

\* The mask SDL_GetMouseState returns for the buttons held down
RECURSIVE mask_of(_)
mask_of(buttons) ==
  IF buttons = {} THEN 0
  ELSE LET b == CHOOSE b \in buttons : TRUE IN SDL_BUTTON(b) + mask_of(buttons \ {b})

\* a & b and a | b on Uint32
RECURSIVE bit_and(_, _)
bit_and(a, b) ==
  IF a = 0 \/ b = 0 THEN 0
  ELSE (a % 2) * (b % 2) + 2 * bit_and(a \div 2, b \div 2)

RECURSIVE bit_or(_, _)
bit_or(a, b) ==
  IF a = 0 THEN b
  ELSE IF b = 0 THEN a
  ELSE (IF a % 2 = 1 \/ b % 2 = 1 THEN 1 ELSE 0) + 2 * bit_or(a \div 2, b \div 2)

\* MouseState::MouseState
NoMouseState == [life |-> "none", x |-> 0, y |-> 0, prevMask |-> 0, currentMask |-> 0]

MouseInit ==
  /\ mouse = NoMouseState
  /\ sampled = <<{}, {}>>

\* MouseState::IsValidMask: the mask of one of the five buttons
IsValidMask(buttonMask) == \E b \in ButtonIndices : buttonMask = SDL_BUTTON(b)

Update_nohistory(o, mask, x, y) == [o EXCEPT !.currentMask = mask, !.x = x, !.y = y]
\* MouseState::Update, with what SDL_GetMouseState(&x, &y) yields
Update(o, mask, x, y) ==
  [o EXCEPT !.prevMask = o.currentMask, !.currentMask = mask, !.x = x, !.y = y]

\* MouseState::IsButtonPressed
IsButtonPressed(o, buttonMask) ==
  IF ~IsValidMask(buttonMask) THEN FALSE
  ELSE bit_and(o.currentMask, buttonMask) # 0

\* MouseState::WasButtonReleased
WasButtonReleased(o, buttonMask) ==
  IF ~IsValidMask(buttonMask) THEN FALSE
  ELSE ~(bit_and(o.currentMask, buttonMask) # 0) /\ (bit_and(o.prevMask, buttonMask) # 0)

\* MouseState::WasLeftButtonReleased
WasLeftButtonReleased(o) ==
  ~(bit_and(o.currentMask, SDL_BUTTON_LMASK) # 0) /\ (bit_or(o.prevMask, SDL_BUTTON_LMASK) # 0)

\* MouseState::WasRightButtonReleased
WasRightButtonReleased(o) ==
  ~(bit_and(o.currentMask, SDL_BUTTON_RMASK) # 0) /\ (bit_or(o.prevMask, SDL_BUTTON_RMASK) # 0)

MouseStateCtor ==
  /\ mouse.life = "none"
  /\ mouse' = [NoMouseState EXCEPT !.life = "alive"]
  /\ last' = [op |-> "MouseState"]
  /\ UNCHANGED sampled
  /\ MouseOnly

MouseStateUpdate ==
  /\ mouse.life = "alive"
  /\ \E buttons \in ButtonSets, x \in MouseCoords, y \in MouseCoords :
       /\ mouse' = Update(mouse, mask_of(buttons), x, y)
       /\ sampled' = <<sampled[2], buttons>>
       /\ last' = [op |-> "Update", before |-> mouse, mask |-> mask_of(buttons)]
  /\ MouseOnly

MouseNext ==
  \/ MouseStateCtor
  \/ MouseStateUpdate

\* ------------------------------------------------- detail::tuple_type_index
\* tuple_type_index<Target, std::tuple<T...>>::find: the fold
\* ((std::is_same_v<Target, T> ? index + 1 : 0) + ...) over the types from
\* position i on; index is zero-based, the positions of T are 1..Len(T)
RECURSIVE fold(_, _, _)
fold(Target, T, i) ==
  IF i > Len(T) THEN 0
  ELSE (IF Target = T[i] THEN (i - 1) + 1 ELSE 0) + fold(Target, T, i + 1)

\* tuple_type_index<Target, std::tuple<T...>>::value
tuple_type_index(Target, T) == -1 + fold(Target, T, 1)

TupleTypeIndex ==
  /\ \E Target \in Types, T \in TypeLists :
       last' = [op |-> "tuple_type_index", Target |-> Target, T |-> T,
                value |-> tuple_type_index(Target, T)]
  /\ NoObject

TupleNext == TupleTypeIndex

\* ---------------------------------------------------------- specifications
Init ==
  /\ ThreadInit
  /\ HapticInit
  /\ MusicInit
  /\ RendererInit
  /\ LibraryInit
  /\ EventInit
  /\ EnumInit
  /\ TextureInit
  /\ MouseInit
  /\ last = [op |-> "none"]

\* cen::thread: construction, join, detach, destruction
SpecThread == Init /\ [][ThreadNext]_vars

\* cen::haptic and cen::haptic_handle
SpecHaptic == Init /\ [][HapticNext]_vars

\* music: playback, pausing and fading
SpecMusic == Init /\ [][MusicNext]_vars

\* music: set_volume, volume
SpecMusicVolume == Init /\ [][MusicVolumeNext]_vars

\* cen::library: initialization of the subsystems
SpecLibrary == Init /\ [][LibraryNext]_vars

\* MouseButtonEvent and ControllerButtonEvent: setters and getters
SpecEvent == Init /\ [][EventNext]_vars

\* basic_renderer: construction, moves, destruction
SpecRendererOwn == Init /\ [][RendererOwnNext]_vars

\* basic_renderer: what a move takes along
SpecRendererMove == Init /\ [][RendererMoveNext]_vars

\* basic_renderer: add_font, remove_font
SpecRendererFont == Init /\ [][RendererFontNext]_vars

\* basic_renderer: set_color, clear, clear_with
SpecRendererColor == Init /\ [][RendererColorNext]_vars

\* basic_renderer: the translation viewport and the translated draws
SpecRendererDraw == Init /\ [][RendererDrawNext]_vars

\* basic_renderer: set_target
SpecRendererTarget == Init /\ [][RendererTargetNext]_vars

\* basic_renderer: set_scale, set_logical_size
SpecRendererScale == Init /\ [][RendererScaleNext]_vars

\* basic_renderer: the text rendering methods
SpecRendererText == Init /\ [][RendererTextNext]_vars

\* mouse_wheel_direction: to_string and operator<<
SpecEnum == Init /\ [][EnumNext]_vars

\* MouseState: Update and the button queries
SpecMouse == Init /\ [][MouseNext]_vars

\* detail::tuple_type_index
SpecTuple == Init /\ [][TupleNext]_vars

\* Texture::streaming
SpecTexture == Init /\ [][TextureNext]_vars

\* The owning wrappers whose constructor makes the native creation call: one
\* thread, one music and one owning haptic are constructed, and renderers are
\* constructed, moved and destroyed
OwnersNext ==
  \/ ThreadCtor(1)
  \/ MusicCtor(1)
  \/ HapticCtorIndex(1)
  \/ \E r \in Renderers : RendererCtorWindow(r)
  \/ \E dst \in Renderers, src \in Renderers : RendererMoveCtor(dst, src)
  \/ \E dst \in Renderers, src \in Renderers : RendererMoveAssign(dst, src)
  \/ \E r \in Renderers : RendererDtor(r)

SpecOwners == Init /\ [][OwnersNext]_vars

\* ------------------------------------------------- claims: owning wrappers

\* What the constructors that make the native creation call do with its
\* result: a null result makes the constructor throw and no object exists; a
\* non-null result is the handle the new object holds.
CtorOutcome ==
  /\ last.op = "music" =>
       IF last.handle = 0
       THEN last.threw = "mix_error" /\ mus[last.m].life = "failed"
       ELSE last.threw = "none" /\ mus[last.m].life = "alive"
            /\ mus[last.m].m_music = last.handle
  /\ last.op = "thread" =>
       IF last.handle = 0
       THEN last.threw = "sdl_error" /\ thr[last.t].life = "failed"
       ELSE last.threw = "none" /\ thr[last.t].life = "alive"
            /\ thr[last.t].m_thread = last.handle
  /\ last.op = "haptic_index" =>
       IF last.ptr = 0
       THEN last.threw = "sdl_error" /\ hap[last.x].life = "failed"
       ELSE last.threw = "none" /\ hap[last.x].life = "alive"
            /\ hap[last.x].m_haptic = last.ptr
  /\ last.op = "renderer_window" =>
       IF last.handle = 0
       THEN last.threw = "sdl_error" /\ rnd[last.r].life = "failed"
       ELSE last.threw = "none" /\ rnd[last.r].life = "alive"
            /\ get(rnd[last.r]) = last.handle

C2_DtorJoinsIfJoinable ==
  [][\A t \in Threads :
       (thr[t].life = "alive" /\ thr'[t].life = "dead") =>
         /\ sdlDetachCalls' = sdlDetachCalls
         /\ IF joinable(thr[t])
            THEN /\ sdlWaitCalls' = [sdlWaitCalls EXCEPT ![thr[t].m_thread] = @ + 1]
                 /\ was_joined(thr'[t])
            ELSE sdlWaitCalls' = sdlWaitCalls]_vars

C2_Witness ==
  /\ last.op = "~thread"
  /\ last.wasJoinable
  /\ thr[last.t].life = "dead"
  /\ sdlWaitCalls[last.handle] = 1

\* C3: once a thread has been joined or detached, later join() and detach()
\* calls (and destruction) make no native call on its handle and leave
\* was_joined() and was_detached() as they are, and join() returns 0; so a
\* handle is waited on or detached at most once in total, never both.
C3_JoinDetachOnce ==
  /\ [](\A h \in ThreadHandles : sdlWaitCalls[h] + sdlDetachCalls[h] <= 1)
  /\ [][\A t \in Threads :
          (thr[t].life = "alive" /\ ~joinable(thr[t])) =>
            /\ sdlWaitCalls'[thr[t].m_thread] = sdlWaitCalls[thr[t].m_thread]
            /\ sdlDetachCalls'[thr[t].m_thread] = sdlDetachCalls[thr[t].m_thread]
            /\ was_joined(thr'[t]) = was_joined(thr[t])
            /\ was_detached(thr'[t]) = was_detached(thr[t])
            /\ (last'.op = "join" /\ last'.t = t => last'.ret = 0)]_vars

C3_Witness ==
  /\ last.op = "join"
  /\ ~last.wasJoinable
  /\ was_detached(thr[last.t])
  /\ sdlDetachCalls[last.handle] = 1
  /\ sdlWaitCalls[last.handle] = 0

\* C9: a thread created by init(task, name), by init(task, userData, name) or
\* by the constructor carries the name it was given: name() is that name.
C9_InitCarriesName ==
  (last.op \in {"thread", "init", "init_data"} /\ last.threw = "none")
    => name(thr[last.t]) = last.name

\* ------------------------------------------------- claims: cen::basic_haptic

\* C5: an owning haptic built from a pointer throws when the pointer is null,
\* and calls SDL_HapticClose on its device once, at its destruction; a
\* non-owning haptic_handle accepts a null pointer without throwing, and no
\* step other than the destruction of an owning haptic calls SDL_HapticClose.
C5_OwnerClosesHandleNever ==
  /\ [](last.op = "haptic_ptr" =>
          /\ (last.owning /\ last.ptr = 0) =>
               (last.threw = "exception" /\ hap[last.x].life = "failed")
          /\ ~last.owning =>
               (last.threw = "none" /\ hap[last.x].life = "alive"
                  /\ hap[last.x].m_haptic = last.ptr))
  /\ [](\A x \in Haptics : (hap[x].life = "alive" /\ hap[x].owning) => hap[x].m_haptic # 0)
  /\ [][LET dying == {x \in Haptics : /\ hap[x].life = "alive" /\ hap'[x].life = "dead"
                                       /\ hap[x].owning}
        IN \A d \in HapticPtrs :
             sdlHapticCloseCalls'[d] =
               sdlHapticCloseCalls[d] + Cardinality({x \in dying : hap[x].m_haptic = d})]_vars

C5_Witness ==
  /\ last.op = "~haptic"
  /\ last.owning
  /\ sdlHapticCloseCalls[last.ptr] = 1
  /\ \E y \in Haptics : hap[y].life = "dead" /\ ~hap[y].owning /\ hap[y].m_haptic = 0

\* ------------------------------------------ claims: centurion::basic_renderer

\* C4: a move construction or move assignment between two distinct renderers
\* leaves the destination holding the source's former handle and the source
\* holding null; a move assignment of a renderer to itself leaves its handle
\* as it was (non-null if it was) and not destroyed.
C4_MoveTransfersHandle ==
  /\ (last.op \in {"move_ctor", "move_assign"} /\ last.dst # last.src) =>
       /\ get(rnd[last.dst]) = last.srcHandle
       /\ get(rnd[last.src]) = 0
  /\ (last.op = "move_assign" /\ last.dst = last.src) =>
       /\ get(rnd[last.dst]) = last.dstHandle
       /\ sdlDestroyCalls[last.dstHandle] = 0

C4_Witness ==
  /\ last.op = "move_assign"
  /\ last.dst = last.src
  /\ get(rnd[last.dst]) # 0
  /\ \E r \in Renderers : rnd[r].life = "alive" /\ r # last.dst /\ get(rnd[r]) = 0

\* C6: add_font(key, font) with a null font has no effect: the font map is as
\* before the call, so a key that had no font still has none.
C6_AddNullFontNoEffect ==
  (last.op = "add_font" /\ last.font = 0) =>
    /\ rnd[last.r].m_fonts = last.before
    /\ (last.key \notin DOMAIN last.before => ~has_font(rnd[last.r], last.key))

\* C7: add_font(key, font) on a key that already has a font keeps the stored
\* font; has_font(key) is true exactly when key was added and not removed
\* since; and font(key) is null exactly when has_font(key) is false.
C7_FontMapConsistent ==
  /\ (last.op = "add_font" /\ last.key \in DOMAIN last.before) =>
       /\ rnd[last.r].m_fonts = last.before
       /\ font(rnd[last.r], last.key) = last.before[last.key]
  /\ \A r \in Renderers : \A k \in FontKeys :
       rnd[r].life = "alive" =>
         /\ has_font(rnd[r], k) <=> k \in addedKeys[r]
         /\ font(rnd[r], k) = 0 <=> ~has_font(rnd[r], k)

\* C8: render_t, draw_rect_t and fill_rect_t issue the native draw at the
\* position moved by the translation viewport, x by the viewport's x and y by
\* the viewport's y (in the arithmetic of the coordinate type), with the size
\* unchanged.
C8_TranslatedByViewport ==
  last.op \in {"render_t", "draw_rect_t", "fill_rect_t"} =>
    /\ last.drawn.x = (IF last.T = "int" THEN last.x - static_cast_int(last.vp.x)
                       ELSE last.x - last.vp.x)
    /\ last.drawn.y = (IF last.T = "int" THEN last.y - static_cast_int(last.vp.y)
                       ELSE last.y - last.vp.y)
    /\ last.drawn.width = last.width
    /\ last.drawn.height = last.height

\* C10: clear_with(c) leaves the selected color as it was before the call,
\* and the clear itself runs with color c.
C10_ClearWithKeepsColor ==
  last.op = "clear_with" =>
    /\ color(sdlRenderer[get(rnd[last.r])]) = last.before
    /\ last.cleared = last.c

C10_Witness ==
  /\ last.op = "clear_with"
  /\ last.c # last.before
  /\ last.before # black
  /\ color(sdlRenderer[get(rnd[last.r])]) = last.before
\* C11: set_target(texture) makes the texture the render target only when it
\* is non-null and is_target(); for a null pointer and for a texture that
\* cannot be a render target the render target is reset to the default (null).
C11_SetTargetOnlyTargets ==
  last.op = "set_target" =>
    LET target == sdlRenderer[get(rnd[last.r])].target IN
    /\ (~last.texture.null /\ last.texture.is_target) => target = last.texture.get
    /\ (last.texture.null \/ ~last.texture.is_target) => target = 0

C11_Witness ==
  /\ last.op = "set_target"
  /\ ~last.texture.null /\ ~last.texture.is_target
  /\ last.before # 0
  /\ sdlRenderer[get(rnd[last.r])].target = 0

\* C12: set_scale(xScale, yScale) and set_logical_size(size) with a component
\* that is not greater than zero make no native call and leave the native
\* renderer as it was; with both components greater than zero they forward
\* the values unchanged (and change nothing else).
C12_ScaleAndSizeNeedPositive ==
  /\ last.op = "set_scale" =>
       LET n == sdlRenderer[get(rnd[last.r])] IN
       IF last.xScale > 0 /\ last.yScale > 0
       THEN /\ last.nativeCalls = 1
            /\ x_scale(n) = last.xScale /\ y_scale(n) = last.yScale
            /\ n = [last.before EXCEPT !.scale = n.scale]
       ELSE last.nativeCalls = 0 /\ n = last.before
  /\ last.op = "set_logical_size" =>
       LET n == sdlRenderer[get(rnd[last.r])] IN
       IF last.size.width > 0 /\ last.size.height > 0
       THEN /\ last.nativeCalls = 1
            /\ logical_width(n) = last.size.width
            /\ logical_height(n) = last.size.height
            /\ n = [last.before EXCEPT !.logical = n.logical]
       ELSE last.nativeCalls = 0 /\ n = last.before

C12_Witness ==
  /\ last.op = "set_scale"
  /\ last.xScale > 0 /\ last.yScale = 0
  /\ x_scale(last.before) = 1 /\ y_scale(last.before) = 3
  /\ logical_width(last.before) = 3 /\ logical_height(last.before) = 2
  /\ sdlRenderer[get(rnd[last.r])] = last.before

\* C13: the text rendering methods never throw; they return null when text
\* is null (and then make no native rendering call), when the TTF call
\* yields no surface and when SDL_CreateTextureFromSurface yields no texture;
\* a non-null Texture is returned only when both native calls succeeded.
C13_TextNullOnFailure ==
  last.op = "text" =>
    /\ last.threw = "none"
    /\ last.text = "null" =>
         (last.ret = 0 /\ last.ttfCalls = 0 /\ last.ttf = "none" /\ last.createCalls = 0)
    /\ (last.text # "null" /\ last.surface = 0) => (last.ret = 0 /\ last.createCalls = 0)
    /\ (last.text # "null" /\ last.surface # 0 /\ last.texture = 0) => last.ret = 0
    /\ last.ret # 0 =>
         /\ last.text # "null" /\ last.surface # 0 /\ last.texture # 0
         /\ last.ttfCalls = 1 /\ last.ttf = ttf_call(last.method)
         /\ last.createCalls = 1

C13_Witness ==
  /\ last.op = "text"
  /\ last.method = "text_shaded"
  /\ last.text # "null" /\ last.surface # 0 /\ last.texture = 0
  /\ last.ttfColor # black
  /\ last.ret = 0

\* ------------------------------------------------ claims: centurion::music

\* C14: after set_volume(v), volume() is v when 0 <= v <= MIX_MAX_VOLUME, 0
\* when v < 0 and MIX_MAX_VOLUME when v > MIX_MAX_VOLUME; volume() returns
\* the volume and leaves it (and the rest of the mixer) as it was.
C14_SetVolumeClamps ==
  /\ last.op = "set_volume" =>
       volume(mix) = (IF last.volume < 0 THEN 0
                      ELSE IF last.volume > MIX_MAX_VOLUME THEN MIX_MAX_VOLUME
                      ELSE last.volume)
  /\ last.op = "volume" => (mix = last.before /\ last.ret = last.before.volume)

C14_Witness ==
  /\ last.op = "set_volume"
  /\ last.volume < 0
  /\ volume(last.before) = 47
  /\ volume(mix) = 0

\* C15: fade_out(ms) called while music fades (in or out) does not call
\* Mix_FadeOutMusic and leaves the fade status as it was.
C15_FadeOutKeepsRunningFade ==
  (last.op = "fade_out" /\ get_fade_status(last.before) \in {"in", "out"}) =>
    /\ last.nativeCalls = 0
    /\ get_fade_status(mix) = get_fade_status(last.before)
    /\ mix = last.before

C15_Witness ==
  /\ last.op = "fade_out"
  /\ last.ms > 0
  /\ get_fade_status(last.before) = "in"
  /\ get_fade_status(mix) = "in"

\* C16: after halt(), whatever was going on before (playing, paused, fading
\* in, fading out, nothing), is_playing() is false, is_fading() is false and
\* get_fade_status() is none.
C16_HaltStopsPlayback ==
  last.op = "halt" =>
    /\ ~is_playing(mix)
    /\ ~is_fading(mix)
    /\ get_fade_status(mix) = "none"

C16_Witness ==
  /\ last.op = "halt"
  /\ is_playing(last.before) /\ is_paused(last.before)
  /\ get_fade_status(last.before) = "out"
  /\ ~is_playing(mix)

\* C17: pause() while music is playing makes is_paused() true; resume()
\* directly after such a pause() leaves is_playing() true; directly after
\* play(), is_playing() is true and is_paused() is false; pause() and
\* resume() with no music playing do not throw.
C17_PauseResume ==
  /\ (last.op = "pause" /\ is_playing(last.before)) => is_paused(mix)
  /\ (last.op = "resume" /\ last.prevOp = "pause" /\ is_playing(last.before)) =>
       is_playing(mix)
  /\ last.op = "play" => (is_playing(mix) /\ ~is_paused(mix))
  /\ (last.op \in {"pause", "resume"} /\ ~is_playing(last.before)) => last.threw = "none"

C17_Witness ==
  /\ last.op = "resume"
  /\ last.prevOp = "pause"
  /\ is_paused(last.before)
  /\ get_fade_status(last.before) = "in"
  /\ is_playing(mix) /\ ~is_paused(mix)

\* The fade status after each start operation: none after play(), in after
\* fade_in(ms) with ms > 0 from the halted state, out after play() directly
\* followed by fade_out(ms) with ms > 0.
FadeStatusAfterStart ==
  /\ last.op = "play" => get_fade_status(mix) = "none"
  /\ (last.op = "fade_in" /\ last.ms > 0 /\ ~is_playing(last.before)) =>
       get_fade_status(mix) = "in"
  /\ (last.op = "fade_out" /\ last.ms > 0 /\ last.prevOp = "play") =>
       get_fade_status(mix) = "out"

\* C18 as stated: the fade status follows the last start operation; in every
\* state whose fade status is in or out, is_playing() is true and
\* is_paused() is false; is_fading() is true exactly when the status is in
\* or out.
C18_FadingNeverPaused ==
  /\ FadeStatusAfterStart
  /\ get_fade_status(mix) \in {"in", "out"} => (is_playing(mix) /\ ~is_paused(mix))
  /\ is_fading(mix) <=> get_fade_status(mix) \in {"in", "out"}

\* C18 amended: the fade status follows the last start operation; in every
\* state whose fade status is in or out, is_playing() is true; is_paused()
\* is false directly after the fade_in(ms) and directly after the fade_out(ms)
\* that follows play(); is_fading() is true exactly when the status is in or
\* out.
C18_FadeStatusFollowsStart ==
  /\ FadeStatusAfterStart
  /\ get_fade_status(mix) \in {"in", "out"} => is_playing(mix)
  /\ (last.op = "fade_in" /\ last.ms > 0) => ~is_paused(mix)
  /\ (last.op = "fade_out" /\ last.ms > 0 /\ last.prevOp = "play") => ~is_paused(mix)
  /\ is_fading(mix) <=> get_fade_status(mix) \in {"in", "out"}

C18_Witness ==
  /\ last.op = "fade_out"
  /\ last.prevOp = "play"
  /\ last.ms > 0
  /\ get_fade_status(mix) = "out"
  /\ is_playing(mix) /\ ~is_paused(mix)

\* --------------------------------------------------- claims: cen::library

\* The initialization functions whose return value is a failure
FailingInits(fk) ==
  {f \in InitFunctions :
     \/ f = "SDL_Init" /\ fk[f].return_val < 0
     \/ f = "TTF_Init" /\ fk[f].return_val = -1
     \/ f \in {"IMG_Init", "Mix_Init"} /\ fk[f].return_val = 0
     \/ f = "Mix_OpenAudio" /\ fk[f].return_val = -1}

\* C19: constructing cen::library throws exactly when an initialization call
\* fails, and then the exception of a failing subsystem (sdl_error for
\* SDL_Init, ttf_error for TTF_Init, img_error for IMG_Init, mix_error for
\* Mix_Init and Mix_OpenAudio), that of the failing one when only one fails;
\* when every call succeeds nothing is thrown and SDL_Init, TTF_Init, IMG_Init
\* and Mix_Init have each been called once more, with the configured flags.
C19_InitFailureTranslated ==
  last.op = "library" =>
    LET failing == FailingInits(last.before) IN
    /\ failing = {} <=> last.threw = "none"
    /\ "SDL_Init" \in failing => last.threw = "sdl_error"
    /\ failing = {"TTF_Init"} => last.threw = "ttf_error"
    /\ failing = {"IMG_Init"} => last.threw = "img_error"
    /\ failing = {"Mix_Init"} => last.threw = "mix_error"
    /\ failing = {"Mix_OpenAudio"} => last.threw = "mix_error"
    /\ failing # {} =>
         \E f \in failing :
           \/ f = "SDL_Init" /\ last.threw = "sdl_error"
           \/ f = "TTF_Init" /\ last.threw = "ttf_error"
           \/ f = "IMG_Init" /\ last.threw = "img_error"
           \/ f \in {"Mix_Init", "Mix_OpenAudio"} /\ last.threw = "mix_error"
    /\ failing = {} =>
         /\ \A f \in {"SDL_Init", "TTF_Init", "IMG_Init", "Mix_Init"} :
              fake[f].call_count = last.before[f].call_count + 1
         /\ fake["SDL_Init"].arg0_val = cfg.coreFlags
         /\ fake["IMG_Init"].arg0_val = cfg.imageFlags
         /\ fake["Mix_Init"].arg0_val = cfg.mixerFlags

C19_Witness ==
  /\ last.op = "library"
  /\ FailingInits(last.before) = {"Mix_OpenAudio"}
  /\ last.threw = "mix_error"
  /\ fake["SDL_Init"].call_count = 2
  /\ fake["Mix_Init"].call_count = 2

\* ------------------------ claims: MouseButtonEvent, ControllerButtonEvent

\* C20: for MouseButtonEvent and ControllerButtonEvent, each getter returns
\* the value most recently passed to its own setter, or the field of the SDL
\* event the wrapper was constructed from if that setter was never called
\* (so no setter changes what another getter returns).
C20_SettersGettersRoundTrip ==
  /\ ev.mouse.life = "alive" =>
       LET e == ev.mouse.m_event IN
       /\ MouseButtonEvent_window_id(e) = evSet.mouse.windowID
       /\ MouseButtonEvent_which(e) = evSet.mouse.which
       /\ MouseButtonEvent_button(e) = evSet.mouse.button
       /\ MouseButtonEvent_state(e) = evSet.mouse.state
       /\ MouseButtonEvent_clicks(e) = evSet.mouse.clicks
       /\ MouseButtonEvent_x(e) = evSet.mouse.x
       /\ MouseButtonEvent_y(e) = evSet.mouse.y
  /\ ev.controller.life = "alive" =>
       LET e == ev.controller.m_event IN
       /\ ControllerButtonEvent_button(e) = evSet.controller.button
       /\ ControllerButtonEvent_state(e) = evSet.controller.state
       /\ ControllerButtonEvent_which(e) = evSet.controller.which

\* ------------------------------------------------- claims: string conversions

\* C21: to_string(mouse_wheel_direction) returns "normal" for normal and
\* "flipped" for flipped and throws cen_error for every value that is no
\* declared enumerator; operator<< writes exactly the string to_string
\* returns, and writes nothing when to_string throws.
C21_ToStringTotalOnEnumerators ==
  /\ last.op = "to_string" =>
       /\ last.dir = 0 => (last.threw = "none" /\ last.ret = "normal")
       /\ last.dir = 1 => (last.threw = "none" /\ last.ret = "flipped")
       /\ last.dir \notin {0, 1} => last.threw = "cen_error"
  /\ last.op = "operator<<" =>
       /\ last.dir = 0 => (last.threw = "none" /\ stream = Append(last.before, "normal"))
       /\ last.dir = 1 => (last.threw = "none" /\ stream = Append(last.before, "flipped"))
       /\ last.dir \notin {0, 1} => (last.threw = "cen_error" /\ stream = last.before)

C21_Witness ==
  /\ last.op = "operator<<"
  /\ last.dir = 2
  /\ last.threw = "cen_error"
  /\ stream = <<"flipped", "normal">>

\* ------------------------------------------- claims: cen::thread, its state

\* C22: was_joined() and was_detached() of a thread are never both true, and
\* the assertion m_detached != m_joined, which join() and detach() make after
\* they changed the state, holds whenever it is reached.
C22_NeverJoinedAndDetached ==
  /\ \A t \in Threads :
       thr[t].life \in {"alive", "dead"} =>
         ~(was_joined(thr[t]) /\ was_detached(thr[t]))
  /\ (last.op \in {"join", "detach"} /\ last.wasJoinable) =>
       thr[last.t].m_detached # thr[last.t].m_joined

C22_Witness ==
  /\ last.op = "join"
  /\ ~last.wasJoinable
  /\ was_detached(thr[last.t])
  /\ ~was_joined(thr[last.t])
  /\ \E t \in Threads : thr[t].life = "alive" /\ was_joined(thr[t])

\* C23: a freshly created thread is joinable; joinable() is true exactly
\* when neither SDL_WaitThread nor SDL_DetachThread was called for the
\* thread; a join() of a joinable thread calls SDL_WaitThread once, makes
\* was_joined() true and returns the status the native thread reports; a
\* detach() of a joinable thread calls SDL_DetachThread once and makes
\* was_detached() true; a thread that is not joinable never becomes joinable.
C23_JoinableUntilJoinOrDetach ==
  /\ [](/\ (last.op \in {"thread", "init", "init_data"} /\ last.threw = "none") =>
             joinable(thr[last.t])
        /\ \A t \in Threads :
             thr[t].life = "alive" =>
               (joinable(thr[t]) <=>
                  (sdlWaitCalls[thr[t].m_thread] = 0 /\ sdlDetachCalls[thr[t].m_thread] = 0))
        /\ (last.op = "join" /\ last.wasJoinable) =>
             /\ sdlWaitCalls[last.handle] = 1
             /\ sdlDetachCalls[last.handle] = 0
             /\ was_joined(thr[last.t])
             /\ last.ret = last.status
             /\ ~joinable(thr[last.t])
        /\ (last.op = "detach" /\ last.wasJoinable) =>
             /\ sdlDetachCalls[last.handle] = 1
             /\ sdlWaitCalls[last.handle] = 0
             /\ was_detached(thr[last.t])
             /\ ~joinable(thr[last.t]))
  /\ [][\A t \in Threads :
          (thr[t].life = "alive" /\ ~joinable(thr[t])) => ~joinable(thr'[t])]_vars

C23_Witness ==
  /\ last.op = "join"
  /\ last.wasJoinable
  /\ last.ret = 1
  /\ sdlWaitCalls[last.handle] = 1
  /\ \E t \in Threads :
       /\ thr[t].life = "alive"
       /\ was_detached(thr[t])
       /\ sdlDetachCalls[thr[t].m_thread] = 1

\* ------------------------------------------------ claims: Texture::streaming

\* C24: Texture::streaming throws CenturionException when locking the
\* texture it created fails, and a texture it returns is not locked: the
\* calls made on it are one lock() followed by one unlock().
C24_StreamingReturnsUnlocked ==
  last.op = "streaming" =>
    /\ last.outcome = "no lock" => (last.threw = "CenturionException" /\ last.ret = 0)
    /\ last.outcome = "ok" => last.threw = "none"
    /\ last.threw = "none" =>
         /\ last.ret # 0
         /\ last.ret = last.handle
         /\ ~sdlTexture[last.ret].locked
         /\ sdlTexture[last.ret].calls = <<"lock", "unlock">>
    /\ last.threw # "none" => last.ret = 0

C24_Witness ==
  /\ last.op = "streaming"
  /\ last.threw = "none"
  /\ last.ret = 2
  /\ sdlTexture[2].calls = <<"lock", "unlock">>
  /\ sdlTexture[1].calls = <<"lock">>

\* ------------------------------------- claims: basic_renderer, moves and text

\* C25: SDL_DestroyRenderer is never called with a null pointer and never
\* twice for one renderer, and every renderer handle that was handed out is
\* either held by exactly one living basic_renderer and not destroyed, or
\* held by none and destroyed exactly once.
C25_DestroyedExactlyOnce ==
  /\ sdlDestroyCalls[0] = 0
  /\ \A h \in RendererPtrs \ {0} :
       LET holders == {r \in Renderers : rnd[r].life = "alive" /\ get(rnd[r]) = h} IN
       /\ sdlDestroyCalls[h] <= 1
       /\ h < nextRenderer =>
            /\ Cardinality(holders) <= 1
            /\ sdlDestroyCalls[h] = 1 - Cardinality(holders)
       /\ h >= nextRenderer => (holders = {} /\ sdlDestroyCalls[h] = 0)

C25_Witness ==
  /\ last.op = "~renderer"
  /\ last.r = 1
  /\ last.handle = 2
  /\ rnd[2].life = "dead"
  /\ get(rnd[2]) = 0
  /\ sdlDestroyCalls[1] = 1
  /\ sdlDestroyCalls[2] = 1

\* C29: whenever render_text obtained a surface from the render callback,
\* SDL_FreeSurface is called once, on that surface, whether the texture
\* could be created or not; when it obtained no surface SDL_FreeSurface is
\* not called.
C29_SurfaceAlwaysFreed ==
  last.op = "text" =>
    /\ (last.text # "null" /\ last.surface # 0) =>
         (last.freeCalls = 1 /\ last.freed = last.surface)
    /\ (last.text = "null" \/ last.surface = 0) => (last.freeCalls = 0 /\ last.freed = 0)

C29_Witness ==
  /\ last.op = "text"
  /\ last.text = "text"
  /\ last.surface = 2
  /\ last.texture = 0
  /\ last.ret = 0
  /\ last.freeCalls = 1
  /\ last.freed = 2

\* C26: after a move construction or a move assignment the destination has
\* the translation viewport the source had, and for every key the font, and
\* the has_font answer, the source had.
C26_MoveTakesFontsAndViewport ==
  last.op \in {"move_ctor", "move_assign"} =>
    /\ rnd[last.dst].viewport = last.srcBefore.viewport
    /\ \A k \in FontKeys :
         /\ font(rnd[last.dst], k) = font(last.srcBefore, k)
         /\ has_font(rnd[last.dst], k) = has_font(last.srcBefore, k)

\* ------------------------------------------------------ claims: MouseState

\* C27: WasLeftButtonReleased() and WasRightButtonReleased() give what
\* WasButtonReleased gives for the left and the right button mask: true only
\* if the button was down at the previous Update() and is up at the latest;
\* both are false on a freshly constructed MouseState.
C27_LeftRightAgreeWithMask ==
  mouse.life = "alive" =>
    /\ WasLeftButtonReleased(mouse) = WasButtonReleased(mouse, SDL_BUTTON(1))
    /\ WasRightButtonReleased(mouse) = WasButtonReleased(mouse, SDL_BUTTON(3))
    /\ WasLeftButtonReleased(mouse) => (1 \in sampled[1] /\ 1 \notin sampled[2])
    /\ WasRightButtonReleased(mouse) => (3 \in sampled[1] /\ 3 \notin sampled[2])
    /\ last.op = "MouseState" =>
         (~WasLeftButtonReleased(mouse) /\ ~WasRightButtonReleased(mouse))

\* C28: after an Update() the previous mask is the current mask of before
\* the call and the current mask is what SDL_GetMouseState returned; for the
\* mask of a button, WasButtonReleased is true exactly when the button was
\* down in the sample before the latest and is up in the latest, and
\* IsButtonPressed is true exactly when it is down in the latest sample.
C28_OneStepOfHistory ==
  /\ last.op = "Update" =>
       /\ mouse.prevMask = last.before.currentMask
       /\ mouse.currentMask = last.mask
  /\ mouse.life = "alive" =>
       \A b \in ButtonIndices :
         /\ IsValidMask(SDL_BUTTON(b))
         /\ WasButtonReleased(mouse, SDL_BUTTON(b)) <=>
              (b \in sampled[1] /\ b \notin sampled[2])
         /\ IsButtonPressed(mouse, SDL_BUTTON(b)) <=> b \in sampled[2]

C28_Witness ==
  /\ last.op = "Update"
  /\ sampled = <<{1, 3}, {3}>>
  /\ WasButtonReleased(mouse, SDL_BUTTON(1))
  /\ ~WasButtonReleased(mouse, SDL_BUTTON(3))
  /\ IsButtonPressed(mouse, SDL_BUTTON(3))
  /\ last.before.prevMask = mask_of({2})

\* ------------------------------------------------- claims: tuple_type_index

\* C30: tuple_type_index<Target, std::tuple<T...>>::value is -1 exactly when
\* Target is none of T..., and otherwise is a zero-based index below
\* sizeof...(T) at which T... has Target, also when Target occurs more than
\* once.
C30_IndexOfTarget ==
  last.op = "tuple_type_index" =>
    LET occurs == {i \in 1..Len(last.T) : last.T[i] = last.Target} IN
    /\ last.value = -1 <=> occurs = {}
    /\ occurs # {} =>
         /\ last.value \in 0..(Len(last.T) - 1)
         /\ last.T[last.value + 1] = last.Target

====
